---- MODULE Spec2Model ----
(***************************************************************************)
(* A model of the codychain ledger (src/blockchain/blockchain.py) with the *)
(* signature service (crypto.py) and the advisory proof module             *)
(* (zk_proof.py) it calls.                                                 *)
(*                                                                         *)
(* Representation                                                          *)
(*  - amounts are Python floats with one decimal; the model counts them in *)
(*    tenths (10 is 1.0), so sums are exact;                               *)
(*  - SHA-256 is modelled as a collision-free function: a digest carries   *)
(*    its preimage.  A block hash is the record [lead, of]: `of' is the    *)
(*    hashed content, `lead' stands for the value of the first four hex    *)
(*    digits of the digest (0 is "0000"), a deterministic mix of the       *)
(*    content taken modulo LeadSpace;                                      *)
(*  - an Ed25519 signature is the record of the signing key and the bytes  *)
(*    signed; it verifies under the paired public key over the same bytes; *)
(*  - Python's None is a value of its own in every optional field;        *)
(*  - the file data/blockchain.json is a record: absent, cut short         *)
(*    (json.load raises), or the dictionary of a snapshot, whose entries   *)
(*    are records that may lack a key (the lookup raises KeyError);        *)
(*  - callers of mine_pending_transactions that run at the same time each  *)
(*    have their locals and a position in the method.                      *)
(***************************************************************************)
EXTENDS Integers, Sequences, FiniteSets, TLC

VARIABLES
    chain,                  \* Blockchain.chain: sequence of blocks
    pending_transactions,   \* Blockchain.pending_transactions
    dev_users,              \* Blockchain.dev_users: address -> name
    public_keys,            \* Blockchain.public_keys: name -> public key
    disk,                   \* the file data/blockchain.json
    tampered,               \* a block field or the file was modified from outside
    last,                   \* the last call: operation, argument, outcome
    mblock,                 \* mine_block: the block being mined
    mstart,                 \* mine_block: the nonce the search started from
    mpc,                    \* mine_block: position in the loop
    calls,                  \* concurrent callers of mine_pending_transactions: their locals
    crypto,                 \* the last call of sign_message / verify_signature
    challenges,             \* AuthManager.challenges: token -> username, challenge, timestamp
    sessions,               \* AuthManager.sessions: token -> username, expires_at
    auth_public_keys,       \* AuthManager.public_keys
    clock,                  \* datetime.utcnow() in minutes, and how often it has moved
    issued,                 \* the tokens secrets.token_hex has given out, in order, with
                            \* what each was for, when, and whether it was logged out
    reply                   \* the last call of the AuthManager or of an endpoint

vars == <<chain, pending_transactions, dev_users, public_keys, disk,
          tampered, last, mblock, mstart, mpc, calls, crypto,
          challenges, sessions, auth_public_keys, clock, issued, reply>>

ledger == <<chain, pending_transactions, dev_users, public_keys, disk, tampered, last>>
miner == <<mblock, mstart, mpc>>
service == <<challenges, sessions, auth_public_keys, clock, issued, reply>>
others == <<calls, crypto, service>>

(***************************************************************************)
(* Bounds of the model                                                     *)
(***************************************************************************)
MaxBlocks == 2          \* blocks mined after genesis
MaxTxs == 3             \* transactions the ledger holds, pool and blocks together
AdmitTxs == 1           \* the same, where every kind of transaction is submitted
RewardBlocks == 1       \* blocks mined after genesis, where every reward is drawn
RaceTxs == 1            \* transactions admitted, where callers run at the same time
RaceBlocks == 2         \* blocks mined after genesis, where callers run at the same time
LeadSpace == 3          \* values of a digest's leading hex digits (16^4 in the program)
MaxStartNonce == 2      \* starting nonce of a block handed to mine_block
MaxTokens == 2          \* tokens secrets.token_hex gives out
MaxTicks == 2           \* movements of the clock

(***************************************************************************)
(* Values                                                                  *)
(***************************************************************************)
None == "None"
SYSTEM == "SYSTEM"

\* datetime.utcnow().isoformat(): the readings of the clock
Times == <<"t1", "t2">>
TimeSet == {Times[i] : i \in 1..Len(Times)}
TimeCode(t) == IF \E i \in 1..Len(Times) : Times[i] = t
               THEN CHOOSE i \in 1..Len(Times) : Times[i] = t
               ELSE 0

\* the names _initialize_dev_users gives addresses to (the first of the eight)
DevNames == <<"cody", "ezzy">>
\* the names _load_public_keys looks for key files of
KeyNames == {"cody", "ezzy"}
\* four-character addresses _generate_dev_address can draw
AddrPool == {"A1B2", "C3D4"}

\* key pairs: private key -> public key
PublicOf == [sk \in {"sk_cody", "sk_ezzy"} |->
                IF sk = "sk_cody" THEN "pk_cody" ELSE "pk_ezzy"]
KeyFile == [n \in KeyNames |-> IF n = "cody" THEN "pk_cody" ELSE "pk_ezzy"]

(***************************************************************************)
(* models.py: Transaction                                                  *)
(***************************************************************************)
NoSig == [kind |-> "None", key |-> "", msg |-> ""]
EmptySig == [kind |-> "empty", key |-> "", msg |-> ""]
MalformedSig == [kind |-> "malformed", key |-> "", msg |-> ""]
\* hex of fewer than 64 bytes
ShortSig == [kind |-> "short", key |-> "", msg |-> ""]
Ed25519Sig(sk, bytes) == [kind |-> "ed25519", key |-> sk, msg |-> bytes]

NoProof == [kind |-> "None", commitment |-> "", challenge |-> "",
            response |-> "", message_hash |-> ""]
EmptyProof == [kind |-> "empty", commitment |-> "", challenge |-> "",
               response |-> "", message_hash |-> ""]

Transaction(sender, receiver, amount, signature, zk_proof, timestamp) ==
    [sender |-> sender, receiver |-> receiver, amount |-> amount,
     signature |-> signature, zk_proof |-> zk_proof, timestamp |-> timestamp]

\* Python truthiness of the optional fields
SigTruthy(sig) == sig.kind \notin {"None", "empty"}
ProofTruthy(p) == p.kind \notin {"None", "empty"}
StrTruthy(s) == s # None /\ s # ""

(***************************************************************************)
(* crypto.py                                                               *)
(***************************************************************************)
sha256hex(s) == "sha256(" \o s \o ")"

\* str(amount) of a float with one decimal, the amount in tenths
FloatStr(a) ==
    LET m == IF a < 0 THEN -a ELSE a
    IN  (IF a < 0 THEN "-" ELSE "") \o ToString(m \div 10) \o "." \o ToString(m % 10)

\* the amount_str of sign_transaction and verify_transaction_signature
amount_str(a) ==
    IF a % 10 = 0
    THEN LET m == IF a < 0 THEN -a ELSE a
         IN  (IF a < 0 THEN "-" ELSE "") \o ToString(m \div 10) \o ".0"
    ELSE FloatStr(a)

canonical_message(sender, receiver, amount, timestamp) ==
    sender \o ":" \o receiver \o ":" \o amount_str(amount) \o ":" \o timestamp

\* bytes.fromhex of the short messages that are even-length hex, as text
FromHex == [h \in {"", "6869", "6A", "6a"} |->
               IF h = "" THEN "" ELSE IF h = "6869" THEN "hi" ELSE "j"]

\* the bytes sign_message and verify_signature work on: bytes.fromhex(message)
\* when the message is even-length hex, its UTF-8 encoding otherwise.  A
\* SHA-256 digest is even-length hex; its bytes are written as the digest.
message_bytes(message) ==
    IF message \in DOMAIN FromHex THEN FromHex[message] ELSE message

sign_message(message, private_key_hex) ==
    Ed25519Sig(private_key_hex, message_bytes(message))

\* a slip: the key the signature was made with is not compared
verify_signature_any_key(message, signature, public_key_hex) ==
    /\ public_key_hex \in {PublicOf[sk] : sk \in DOMAIN PublicOf}
    /\ signature.kind = "ed25519"
    /\ signature.msg = message_bytes(message)

\* the exception raised inside the try block of verify_signature, "" when
\* none is: VerifyKey(public_key_hex) on a string that is no 32-byte hex key,
\* bytes.fromhex(signature_hex) on None or on a string that is not hex,
\* verify_key.verify on a signature of another length or one that does not
\* fit the key and the bytes
try_verify(message, signature, public_key_hex) ==
    IF public_key_hex \notin {PublicOf[sk] : sk \in DOMAIN PublicOf} THEN "ValueError"
    ELSE IF signature.kind = "None" THEN "TypeError"
    ELSE IF signature.kind = "malformed" THEN "ValueError"
    ELSE IF signature.kind \in {"short", "empty"} THEN "ValueError"
    ELSE IF \/ signature.key \notin DOMAIN PublicOf
            \/ PublicOf[signature.key] # public_key_hex
            \/ signature.msg # message_bytes(message)
    THEN "BadSignatureError"
    ELSE ""

\* a slip: only a signature that does not fit is caught
except_bad_signature(e) == e = "BadSignatureError"

\* `except Exception:' catches e
except_Exception(e) == e \in {"ValueError", "TypeError", "BadSignatureError"}

\* the exception that leaves verify_signature, "" when none does
verify_signature_raises(message, signature, public_key_hex) ==
    LET e == try_verify(message, signature, public_key_hex)
    IN  IF e = "" \/ except_Exception(e) THEN "" ELSE e

verify_signature(message, signature, public_key_hex) ==
    try_verify(message, signature, public_key_hex) = ""

sign_transaction(sender, receiver, amount, private_key_hex, timestamp) ==
    sign_message(sha256hex(canonical_message(sender, receiver, amount, timestamp)),
                 private_key_hex)

\* a slip: the timestamp is left out of the message that is verified
verify_transaction_signature_untimed(sender, receiver, amount, signature, public_key_hex, timestamp) ==
    verify_signature(sha256hex(sender \o ":" \o receiver \o ":" \o amount_str(amount)),
                     signature, public_key_hex)

verify_transaction_signature(sender, receiver, amount, signature, public_key_hex, timestamp) ==
    verify_signature(sha256hex(canonical_message(sender, receiver, amount, timestamp)),
                     signature, public_key_hex)

\* the exception that leaves verify_transaction_signature, "" when none does
verify_transaction_signature_raises(sender, receiver, amount, signature, public_key_hex, timestamp) ==
    verify_signature_raises(sha256hex(canonical_message(sender, receiver, amount, timestamp)),
                            signature, public_key_hex)

\* `if timestamp is None: timestamp = datetime.utcnow().isoformat()'
timestamp_or_now(timestamp, now) == IF timestamp = None THEN now ELSE timestamp

(***************************************************************************)
(* zk_proof.py                                                             *)
(***************************************************************************)
\* bytes.fromhex(response): the number of bytes, -1 when it is not hex
\* secrets.token_bytes(32): the nonces drawn
Nonces == {"n1", "n2"}

\* the hex of the key of the nonce
commitment_hex(nonce) == "vk(" \o nonce \o ")"

\* the hex of the bytes (a + b) % 256 over zip(nonce, private_key_bytes):
\* 32 bytes, as both are
response_hex(nonce, private_key_hex) == "sum(" \o nonce \o "," \o private_key_hex \o ")"

\* bytes.fromhex(response): the number of bytes, -1 when it is not hex
ResponseBytes(r) ==
    IF r \in {response_hex(n, sk) : n \in Nonces, sk \in DOMAIN PublicOf} THEN 32
    ELSE IF r = "hex16" THEN 16 ELSE -1

proof_message_hash(sender, receiver, amount) ==
    sha256hex(sender \o ":" \o receiver \o ":" \o FloatStr(amount))

proof_challenge(commitment, message_hash) ==
    sha256hex(commitment \o ":" \o message_hash)

generate_zk_proof(sender, receiver, amount, private_key_hex, nonce) ==
    LET mh == proof_message_hash(sender, receiver, amount)
        commitment == commitment_hex(nonce)
    IN  [kind |-> "dict", commitment |-> commitment,
         challenge |-> proof_challenge(commitment, mh),
         response |-> response_hex(nonce, private_key_hex), message_hash |-> mh]

\* a slip: the length of the response is not looked at
verify_zk_proof_any_response(proof, sender, receiver, amount) ==
    /\ proof.commitment # "" /\ proof.challenge # ""
    /\ proof.response # "" /\ proof.message_hash # ""
    /\ proof.message_hash = proof_message_hash(sender, receiver, amount)
    /\ proof.challenge = proof_challenge(proof.commitment, proof.message_hash)
    /\ ResponseBytes(proof.response) # -1

verify_zk_proof(proof, sender, receiver, amount) ==
    /\ proof.commitment # "" /\ proof.challenge # ""
    /\ proof.response # "" /\ proof.message_hash # ""
    /\ proof.message_hash = proof_message_hash(sender, receiver, amount)
    /\ proof.challenge = proof_challenge(proof.commitment, proof.message_hash)
    /\ ResponseBytes(proof.response) = 32

(***************************************************************************)
(* blockchain.py: Block                                                    *)
(***************************************************************************)
GenesisPrevious == [lead |-> 0, of |-> <<"0">>]      \* previous_hash "0"

RECURSIVE TxsCode(_)
TxsCode(txs) ==
    IF txs = <<>> THEN 0
    ELSE LET t == Head(txs)
         IN  (IF t.amount < 0 THEN -t.amount ELSE t.amount)
             + Len(t.sender) + 2 * Len(t.receiver) + 1 + TxsCode(Tail(txs))

\* the first four hex digits of the digest, as a number
Lead(index, timestamp, transactions, previous_hash, nonce) ==
    (1 + index + TimeCode(timestamp) + TxsCode(transactions)
       + 2 * previous_hash.lead + nonce) % LeadSpace

compute_hash(index, timestamp, transactions, previous_hash, nonce) ==
    [lead |-> Lead(index, timestamp, transactions, previous_hash, nonce),
     of |-> <<index, timestamp, transactions, previous_hash, nonce>>]

BlockHash(b) == compute_hash(b.index, b.timestamp, b.transactions, b.previous_hash, b.nonce)

\* Block.__init__
Block(index, timestamp, transactions, previous_hash, nonce) ==
    [index |-> index, timestamp |-> timestamp, transactions |-> transactions,
     previous_hash |-> previous_hash, nonce |-> nonce,
     hash |-> compute_hash(index, timestamp, transactions, previous_hash, nonce)]

\* block.hash.startswith("0000")
startswith0000(h) == h.lead = 0

\* Block.to_dict, with tx.model_dump() for every transaction
model_dump(tx) ==
    [sender |-> tx.sender, receiver |-> tx.receiver, amount |-> tx.amount,
     signature |-> tx.signature, zk_proof |-> tx.zk_proof, timestamp |-> tx.timestamp]

to_dict(b) ==
    [index |-> b.index, timestamp |-> b.timestamp,
     transactions |-> [i \in 1..Len(b.transactions) |-> model_dump(b.transactions[i])],
     previous_hash |-> b.previous_hash, nonce |-> b.nonce, hash |-> b.hash]

(***************************************************************************)
(* blockchain.py: Blockchain, the pure parts                               *)
(***************************************************************************)
\* a slip: the nonce advances by two
mine_attempt_skip(b) ==
    [b EXCEPT !.nonce = b.nonce + 2,
              !.hash = compute_hash(b.index, b.timestamp, b.transactions,
                                    b.previous_hash, b.nonce + 2)]

\* the body of the loop of mine_block: one more attempt
mine_attempt(b) ==
    [b EXCEPT !.nonce = b.nonce + 1,
              !.hash = compute_hash(b.index, b.timestamp, b.transactions,
                                    b.previous_hash, b.nonce + 1)]

\* mine_block: attempts until the stored hash starts with "0000"
RECURSIVE mine_loop(_)
mine_loop(b) == IF startswith0000(b.hash) THEN b ELSE mine_loop(mine_attempt(b))

\* a slip: the nonce is incremented once more after the last hash is stored
mine_block_nonce_ahead(b) ==
    LET r == mine_loop(b)
    IN  IF r.nonce > b.nonce THEN [r EXCEPT !.nonce = r.nonce + 1] ELSE r

mine_block(b) == mine_loop(b)

create_genesis_block(now) == mine_block(Block(0, now, <<>>, GenesisPrevious, 0))

\* _initialize_dev_users: draw[i] is the address generated for DevNames[i];
\* a later name with the same address overwrites the earlier one
RECURSIVE AssignAddresses(_, _, _)
AssignAddresses(users, draw, i) ==
    IF i > Len(DevNames) THEN users
    ELSE AssignAddresses([a \in (DOMAIN users) \cup {draw[i]} |->
                              IF a = draw[i] THEN DevNames[i] ELSE users[a]],
                         draw, i + 1)

EmptyUsers == [a \in {} |-> ""]
initialize_dev_users(users, draw) == AssignAddresses(users, draw, 1)

\* _load_public_keys: the key files that exist
load_public_keys(files) == [n \in files |-> KeyFile[n]]

\* a slip: the sender is matched against the addresses only
sender_username_by_address(users, sender) ==
    IF sender \in DOMAIN users THEN users[sender] ELSE ""

\* the identity add_transaction resolves the sender to ("" when there is none)
sender_username(users, sender) ==
    IF \E a \in DOMAIN users : a = sender \/ users[a] = sender
    THEN LET a == CHOOSE a \in DOMAIN users : a = sender \/ users[a] = sender
         IN  users[a]
    ELSE ""

\* _calculate_mining_reward: the band rand selects, then the rounded draw
RewardBands == <<1..5, 6..7, 8..9, 10..14>>
\* a slip: the last band reaches 1.5
calculate_mining_reward_wide == 1..15

calculate_mining_reward == UNION {RewardBands[i] : i \in 1..Len(RewardBands)}

RECURSIVE BalanceOver(_, _, _)
BalanceOver(txs, address, balance) ==
    IF txs = <<>> THEN balance
    ELSE LET tx == Head(txs)
             b1 == IF tx.receiver = address THEN balance + tx.amount ELSE balance
             b2 == IF tx.sender = address THEN b1 - tx.amount ELSE b1
         IN  BalanceOver(Tail(txs), address, b2)

RECURSIVE BalanceChain(_, _, _)
BalanceChain(c, address, balance) ==
    IF c = <<>> THEN balance
    ELSE BalanceChain(Tail(c), address, BalanceOver(Head(c).transactions, address, balance))

\* a slip: the sender is never debited
RECURSIVE CreditOver(_, _, _)
CreditOver(txs, address, balance) ==
    IF txs = <<>> THEN balance
    ELSE CreditOver(Tail(txs), address,
                    IF Head(txs).receiver = address THEN balance + Head(txs).amount
                    ELSE balance)

RECURSIVE compute_balance_credits(_, _)
compute_balance_credits(c, address) ==
    IF c = <<>> THEN 0
    ELSE CreditOver(Head(c).transactions, address, 0) + compute_balance_credits(Tail(c), address)

\* a slip: the receiver is never credited
RECURSIVE DebitOver(_, _, _)
DebitOver(txs, address, balance) ==
    IF txs = <<>> THEN balance
    ELSE DebitOver(Tail(txs), address,
                   IF Head(txs).sender = address THEN balance - Head(txs).amount
                   ELSE balance)

RECURSIVE compute_balance_debits(_, _)
compute_balance_debits(c, address) ==
    IF c = <<>> THEN 0
    ELSE DebitOver(Head(c).transactions, address, 0) + compute_balance_debits(Tail(c), address)

compute_balance(c, address) == BalanceChain(c, address, 0)

\* validate_chain: FALSE at the first block from index 1 that fails a check
validate_chain(c) ==
    \A i \in 2..Len(c) :
        /\ c[i].hash = BlockHash(c[i])
        /\ c[i].previous_hash = c[i - 1].hash

(***************************************************************************)
(* Persistence: save_to_file and load_from_file                            *)
(***************************************************************************)
NoFile == [kind |-> "absent", chain |-> <<>>, pending_transactions |-> <<>>,
           dev_users |-> EmptyUsers, last_saved |-> None]
\* open(..., 'w') truncated the file and the write did not complete
PartialFile == [kind |-> "partial", chain |-> <<>>, pending_transactions |-> <<>>,
                dev_users |-> EmptyUsers, last_saved |-> None]

\* the "data" dictionary save_to_file dumps
snapshot(c, pool, users, now) ==
    [kind |-> "snapshot",
     chain |-> [i \in 1..Len(c) |-> to_dict(c[i])],
     pending_transactions |-> [i \in 1..Len(pool) |-> model_dump(pool[i])],
     dev_users |-> users,
     last_saved |-> now]

\* what the disk holds after save_to_file: outcome is the environment's answer,
\* "ok", "open_failed" (the file is left as it was) or "write_failed"
SaveOutcomes == {"ok", "open_failed", "write_failed"}
save_to_file(old, c, pool, users, now, outcome) ==
    IF outcome = "ok" THEN snapshot(c, pool, users, now)
    ELSE IF outcome = "open_failed" THEN old
    ELSE PartialFile

\* Transaction(**tx_data)
load_transaction(d) ==
    Transaction(d.sender, d.receiver, d.amount, d.signature, d.zk_proof, d.timestamp)

\* a slip: the nonce is not read back
load_block_nonce0(d) ==
    [Block(d.index, d.timestamp,
           [i \in 1..Len(d.transactions) |-> load_transaction(d.transactions[i])],
           d.previous_hash, 0)
     EXCEPT !.hash = d.hash]

\* block_data.get("nonce", 0)
get_nonce(d) == IF "nonce" \in DOMAIN d THEN d.nonce ELSE 0

\* block_data.get("transactions", [])
get_transactions(d) == IF "transactions" \in DOMAIN d THEN d.transactions ELSE <<>>

\* the Block load_from_file rebuilds from block_data, the stored hash restored
load_block(d) ==
    [Block(d.index, d.timestamp,
           [i \in 1..Len(get_transactions(d)) |-> load_transaction(get_transactions(d)[i])],
           d.previous_hash, get_nonce(d))
     EXCEPT !.hash = d.hash]

\* Transaction(**tx_data) raises: a required field is missing
tx_data_raises(d) == ~({"sender", "receiver", "amount"} \subseteq DOMAIN d)

\* rebuilding the block of block_data raises: a transaction does, or one of
\* block_data["index"], ["timestamp"], ["previous_hash"], ["hash"] is missing
block_data_raises(d) ==
    \/ ~({"index", "timestamp", "previous_hash", "hash"} \subseteq DOMAIN d)
    \/ \E j \in 1..Len(get_transactions(d)) : tx_data_raises(get_transactions(d)[j])

\* json.load returns the dictionary of a snapshot
json_load_ok(d) == d.kind = "snapshot"

\* the entries of data["chain"] the loop appends before one raises
loaded_blocks(d) ==
    IF \E i \in 1..Len(d.chain) : block_data_raises(d.chain[i])
    THEN (CHOOSE i \in 1..Len(d.chain) :
              /\ block_data_raises(d.chain[i])
              /\ \A k \in 1..(i - 1) : ~block_data_raises(d.chain[k])) - 1
    ELSE Len(d.chain)

\* load_from_file returns True
load_ok(d) ==
    /\ json_load_ok(d)
    /\ loaded_blocks(d) = Len(d.chain)
    /\ \A j \in 1..Len(d.pending_transactions) : ~tx_data_raises(d.pending_transactions[j])

\* self.chain when load_from_file returns, True or False: what __init__ set
\* ([]) unless json.load succeeded, and then the blocks appended
load_chain(d) ==
    IF json_load_ok(d) THEN [i \in 1..loaded_blocks(d) |-> load_block(d.chain[i])]
    ELSE <<>>
load_pending(d) ==
    [i \in 1..Len(d.pending_transactions) |-> load_transaction(d.pending_transactions[i])]
load_dev_users(d, draw) ==
    IF DOMAIN d.dev_users = {} THEN initialize_dev_users(EmptyUsers, draw)
    ELSE d.dev_users

(***************************************************************************)
(* add_transaction and mine_pending_transactions, the pure parts           *)
(***************************************************************************)
InvalidSignature == "Invalid transaction signature"
InvalidProof == "Invalid zero-knowledge proof"

\* the signature is verified: the sender resolves to a name with a public key
signature_checked(tx, users, keys) ==
    /\ SigTruthy(tx.signature)
    /\ sender_username(users, tx.sender) # ""
    /\ sender_username(users, tx.sender) \in DOMAIN keys

\* a slip: a failed proof is passed over like a missing proof module
add_transaction_error_proof_ignored(tx, users, keys, now) ==
    LET timestamp == IF StrTruthy(tx.timestamp) THEN tx.timestamp ELSE now
    IN  IF /\ signature_checked(tx, users, keys)
           /\ ~verify_transaction_signature(tx.sender, tx.receiver, tx.amount, tx.signature,
                                            keys[sender_username(users, tx.sender)], timestamp)
        THEN InvalidSignature
        ELSE ""

\* a slip: a signature that cannot be verified is refused
add_transaction_error_strict(tx, users, keys, now) ==
    LET timestamp == IF StrTruthy(tx.timestamp) THEN tx.timestamp ELSE now
    IN  IF SigTruthy(tx.signature) /\ ~signature_checked(tx, users, keys)
        THEN InvalidSignature
        ELSE IF /\ signature_checked(tx, users, keys)
                /\ ~verify_transaction_signature(tx.sender, tx.receiver, tx.amount,
                                                 tx.signature,
                                                 keys[sender_username(users, tx.sender)],
                                                 timestamp)
        THEN InvalidSignature
        ELSE IF ProofTruthy(tx.zk_proof)
                /\ ~verify_zk_proof(tx.zk_proof, tx.sender, tx.receiver, tx.amount)
        THEN InvalidProof
        ELSE ""

\* a slip: a sender with a registered key must sign
add_transaction_error_key_must_sign(tx, users, keys, now) ==
    LET timestamp == IF StrTruthy(tx.timestamp) THEN tx.timestamp ELSE now
    IN  IF /\ ~SigTruthy(tx.signature)
           /\ sender_username(users, tx.sender) \in DOMAIN keys
        THEN InvalidSignature
        ELSE IF /\ signature_checked(tx, users, keys)
                /\ ~verify_transaction_signature(tx.sender, tx.receiver, tx.amount,
                                                 tx.signature,
                                                 keys[sender_username(users, tx.sender)],
                                                 timestamp)
        THEN InvalidSignature
        ELSE IF ProofTruthy(tx.zk_proof)
                /\ ~verify_zk_proof(tx.zk_proof, tx.sender, tx.receiver, tx.amount)
        THEN InvalidProof
        ELSE ""

\* the ValueError add_transaction raises, "" when it raises none
add_transaction_error(tx, users, keys, now) ==
    LET timestamp == IF StrTruthy(tx.timestamp) THEN tx.timestamp ELSE now
    IN  IF /\ signature_checked(tx, users, keys)
           /\ verify_transaction_signature_raises(
                  tx.sender, tx.receiver, tx.amount, tx.signature,
                  keys[sender_username(users, tx.sender)], timestamp) # ""
        THEN verify_transaction_signature_raises(
                 tx.sender, tx.receiver, tx.amount, tx.signature,
                 keys[sender_username(users, tx.sender)], timestamp)
        ELSE IF /\ signature_checked(tx, users, keys)
           /\ ~verify_transaction_signature(tx.sender, tx.receiver, tx.amount, tx.signature,
                                            keys[sender_username(users, tx.sender)], timestamp)
        THEN InvalidSignature
        ELSE IF ProofTruthy(tx.zk_proof)
                /\ ~verify_zk_proof(tx.zk_proof, tx.sender, tx.receiver, tx.amount)
        THEN InvalidProof
        ELSE ""

\* `if miner_address:'
MinerGiven(m) == m # None /\ m # ""

reward_tx(m, reward) == Transaction(SYSTEM, m, reward, NoSig, NoProof, None)

transactions_to_mine(pool, m, reward) ==
    IF MinerGiven(m) THEN Append(pool, reward_tx(m, reward)) ELSE pool

\* a slip: the new block is linked to chain[0], not to the tip chain[-1]
mined_block_first(c, pool, m, reward, now) ==
    mine_block(Block(Len(c), now, transactions_to_mine(pool, m, reward),
                     c[1].hash, 0))

\* the block mine_pending_transactions appends
mined_block(c, pool, m, reward, now) ==
    mine_block(Block(Len(c), now, transactions_to_mine(pool, m, reward),
                     c[Len(c)].hash, 0))

(***************************************************************************)
(* The ledger as a state machine                                           *)
(***************************************************************************)
NoTx == Transaction("", "", 0, NoSig, NoProof, None)
NoBlock == Block(0, None, <<>>, GenesisPrevious, 0)

\* callers of mine_pending_transactions that may run at the same time
Threads == {1, 2}
IdleCall == [pc |-> "idle", miner_address |-> None, transactions_to_mine |-> <<>>,
             new_block |-> NoBlock, tip |-> 0]
NoCrypto == [op |-> "none", message |-> "", key |-> "", signature |-> NoSig,
             tx |-> NoTx, result |-> FALSE, error |-> ""]

Call(op, error, saved, tx, m) ==
    [op |-> op, error |-> error, saved |-> saved, tx |-> tx, miner |-> m,
     now |-> None, index |-> 0, field |-> ""]

\* Blockchain.__init__ on a data directory that holds `old'
Construct(old, files, draw, now, outcome) ==
    /\ public_keys' = load_public_keys(files)
    /\ tampered' = tampered
    /\ IF load_ok(old)
       THEN /\ chain' = load_chain(old)
            /\ pending_transactions' = load_pending(old)
            /\ dev_users' = load_dev_users(old, draw)
            /\ disk' = old
            /\ last' = Call("init", "", "loaded", NoTx, None)
       ELSE /\ chain' = Append(load_chain(old), create_genesis_block(now))
            /\ pending_transactions' = <<>>
            /\ dev_users' = initialize_dev_users(EmptyUsers, draw)
            /\ disk' = save_to_file(old, chain', pending_transactions', dev_users',
                                    now, outcome)
            /\ last' = Call("init", "", outcome, NoTx, None)

Draws == [1..Len(DevNames) -> AddrPool]

\* the first start, on an empty data directory
Bootstrap(files, draw, now, outcome) ==
    /\ public_keys = load_public_keys(files)
    /\ tampered = FALSE
    /\ chain = <<create_genesis_block(now)>>
    /\ pending_transactions = <<>>
    /\ dev_users = initialize_dev_users(EmptyUsers, draw)
    /\ disk = save_to_file(NoFile, chain, pending_transactions, dev_users, now, outcome)
    /\ last = Call("init", "", outcome, NoTx, None)

MinerIdle ==
    /\ mblock = NoBlock
    /\ mstart = 0
    /\ mpc = "idle"

\* no call of the AuthManager or of an endpoint yet
EmptyDict == [t \in {} |-> None]

\* no call of the AuthManager or of an endpoint yet
NoReply == [op |-> "none", token |-> 0, signature |-> NoSig, value |-> None, status |-> 0,
            users |-> EmptyDict, address |-> None]

\* AuthManager.__init__: no challenge, no session, the keys of the key files
AuthInit ==
    /\ challenges = EmptyDict
    /\ sessions = EmptyDict
    /\ auth_public_keys = public_keys
    /\ clock = [utcnow |-> 0, ticks |-> 0]
    /\ issued = <<>>
    /\ reply = NoReply

OthersIdle ==
    /\ calls = [t \in Threads |-> IdleCall]
    /\ crypto = NoCrypto
    /\ AuthInit

\* the process stops and starts again on the same data directory
Restart(draw, now, outcome) ==
    /\ Construct(disk, DOMAIN public_keys, draw, now, outcome)
    /\ UNCHANGED <<miner, others>>

RECURSIVE ChainTxs(_)
ChainTxs(c) == IF c = <<>> THEN 0 ELSE Len(Head(c).transactions) + ChainTxs(Tail(c))

\* the clock reading add_transaction verifies the signature with, None when
\* it reads none
clock_read(tx, users, keys, now) ==
    IF signature_checked(tx, users, keys) /\ ~StrTruthy(tx.timestamp) THEN now ELSE None

\* an admission is modelled while the ledger holds fewer than maxTxs transactions
AddTransactionLedger(maxTxs, tx, now, outcome) ==
    LET error == add_transaction_error(tx, dev_users, public_keys, now)
        read == clock_read(tx, dev_users, public_keys, now)
    IN  IF error # ""
        THEN /\ last' = [Call("add_transaction", error, "none", tx, None)
                         EXCEPT !.now = read]
             /\ UNCHANGED <<chain, pending_transactions, disk>>
        ELSE /\ ChainTxs(chain) + Len(pending_transactions) < maxTxs
             /\ pending_transactions' = Append(pending_transactions, tx)
             /\ disk' = save_to_file(disk, chain, pending_transactions', dev_users,
                                     now, outcome)
             /\ last' = [Call("add_transaction", "", outcome, tx, None)
                         EXCEPT !.now = read]
             /\ UNCHANGED chain

AddTransaction(maxTxs, tx, now, outcome) ==
    /\ AddTransactionLedger(maxTxs, tx, now, outcome)
    /\ UNCHANGED <<dev_users, public_keys, tampered, miner, others>>

\* a slip: the new block takes the place of the tip
MinePendingOverTip(maxBlocks, m, reward, now, outcome) ==
    /\ Len(chain) <= maxBlocks
    /\ chain' = Append(SubSeq(chain, 1, Len(chain) - 1),
                       mined_block(chain, pending_transactions, m, reward, now))
    /\ pending_transactions' = <<>>
    /\ disk' = save_to_file(disk, chain', pending_transactions', dev_users, now, outcome)
    /\ last' = Call("mine_pending_transactions", "", outcome, NoTx, m)
    /\ UNCHANGED <<dev_users, public_keys, tampered, miner, others>>

\* a slip: the pool is not reset after the block is appended
MinePendingPoolKept(maxBlocks, m, reward, now, outcome) ==
    /\ Len(chain) <= maxBlocks
    /\ chain' = Append(chain, mined_block(chain, pending_transactions, m, reward, now))
    /\ disk' = save_to_file(disk, chain', pending_transactions, dev_users, now, outcome)
    /\ last' = Call("mine_pending_transactions", "", outcome, NoTx, m)
    /\ UNCHANGED <<pending_transactions, dev_users, public_keys, tampered, miner, others>>

MinePendingLedger(maxBlocks, m, reward, now, outcome) ==
    /\ Len(chain) <= maxBlocks
    /\ chain' = Append(chain, mined_block(chain, pending_transactions, m, reward, now))
    /\ pending_transactions' = <<>>
    /\ disk' = save_to_file(disk, chain', pending_transactions', dev_users, now, outcome)
    /\ last' = Call("mine_pending_transactions", "", outcome, NoTx, m)

MinePending(maxBlocks, m, reward, now, outcome) ==
    /\ MinePendingLedger(maxBlocks, m, reward, now, outcome)
    /\ UNCHANGED <<dev_users, public_keys, tampered, miner, others>>

\* the calls that read the ledger: validate_chain() and compute_balance(address)
\* a slip: a block whose stored hash is not the hash of its fields gets it stored anew
ValidateChainRepairing ==
    /\ last' = [Call("validate_chain", "", "none", NoTx, None)
                EXCEPT !.field = IF validate_chain(chain) THEN "True" ELSE "False"]
    /\ chain' = [i \in 1..Len(chain) |-> [chain[i] EXCEPT !.hash = BlockHash(chain[i])]]
    /\ UNCHANGED <<pending_transactions, dev_users, public_keys, disk, tampered,
                   miner, others>>

ValidateChain ==
    /\ last' = [Call("validate_chain", "", "none", NoTx, None)
                EXCEPT !.field = IF validate_chain(chain) THEN "True" ELSE "False"]
    /\ UNCHANGED <<chain, pending_transactions, dev_users, public_keys, disk, tampered,
                   miner, others>>

ComputeBalance(address) ==
    /\ last' = [Call("compute_balance", "", "none", NoTx, None)
                EXCEPT !.field = address, !.index = compute_balance(chain, address)]
    /\ UNCHANGED <<chain, pending_transactions, dev_users, public_keys, disk, tampered,
                   miner, others>>

\* get_dev_users: self.dev_users.copy()
get_dev_users(users) == [a \in DOMAIN users |-> users[a]]

GetDevUsers ==
    /\ last' = Call("get_dev_users", "", "none", NoTx, None)
    /\ reply' = [NoReply EXCEPT !.op = "get_dev_users", !.users = get_dev_users(dev_users)]
    /\ UNCHANGED <<chain, pending_transactions, dev_users, public_keys, disk, tampered,
                   miner, calls, crypto, challenges, sessions, auth_public_keys, clock,
                   issued>>

\* save_to_file() called on its own
SaveToFile(now, outcome) ==
    /\ disk' = save_to_file(disk, chain, pending_transactions, dev_users, now, outcome)
    /\ last' = Call("save_to_file", "", outcome, NoTx, None)
    /\ UNCHANGED <<chain, pending_transactions, dev_users, public_keys, tampered,
                   miner, others>>

(***************************************************************************)
(* A block field modified from outside the ledger's operations, the stored *)
(* hash left as it was                                                     *)
(***************************************************************************)
TamperFields == {"index", "timestamp", "amount", "previous_hash", "nonce"}

tamper_block(b, field) ==
    IF field = "index" THEN [b EXCEPT !.index = b.index + 1]
    ELSE IF field = "timestamp"
    THEN [b EXCEPT !.timestamp = IF b.timestamp = Times[1] THEN Times[2] ELSE Times[1]]
    ELSE IF field = "amount"
    THEN [b EXCEPT !.transactions[1].amount = b.transactions[1].amount + 1]
    ELSE IF field = "previous_hash"
    THEN [b EXCEPT !.previous_hash = b.hash]
    ELSE [b EXCEPT !.nonce = b.nonce + 1]

Tamper(i, field) ==
    /\ ~tampered
    /\ i \in 1..Len(chain)
    /\ field = "amount" => chain[i].transactions # <<>>
    /\ chain' = [chain EXCEPT ![i] = tamper_block(chain[i], field)]
    /\ tampered' = TRUE
    /\ last' = [Call("tamper", "", "none", NoTx, None) EXCEPT !.index = i, !.field = field]
    /\ UNCHANGED <<pending_transactions, dev_users, public_keys, disk, miner, others>>

(***************************************************************************)
(* The file data/blockchain.json modified from outside: an entry loses a   *)
(* key, or the file is cut short                                           *)
(***************************************************************************)
DropKey(d, key) == [f \in (DOMAIN d) \ {key} |-> d[f]]

DamageKeys == {"index", "hash", "nonce", "transactions"}

DamageBlock(i, key) ==
    /\ ~tampered
    /\ load_ok(disk)
    /\ i \in 1..Len(disk.chain)
    /\ disk' = [disk EXCEPT !.chain[i] = DropKey(disk.chain[i], key)]
    /\ last' = [Call("damage", "", "none", NoTx, None) EXCEPT !.index = i, !.field = key]
    /\ tampered' = TRUE
    /\ UNCHANGED <<chain, pending_transactions, dev_users, public_keys, miner, others>>

DamagePending(j) ==
    /\ ~tampered
    /\ load_ok(disk)
    /\ j \in 1..Len(disk.pending_transactions)
    /\ disk' = [disk EXCEPT !.pending_transactions[j] =
                                DropKey(disk.pending_transactions[j], "amount")]
    /\ last' = [Call("damage", "", "none", NoTx, None) EXCEPT !.index = j, !.field = "pending"]
    /\ tampered' = TRUE
    /\ UNCHANGED <<chain, pending_transactions, dev_users, public_keys, miner, others>>

Truncate ==
    /\ ~tampered
    /\ load_ok(disk)
    /\ disk' = PartialFile
    /\ last' = [Call("damage", "", "none", NoTx, None) EXCEPT !.field = "file"]
    /\ tampered' = TRUE
    /\ UNCHANGED <<chain, pending_transactions, dev_users, public_keys, miner, others>>

(***************************************************************************)
(* mine_block, one attempt at a time                                       *)
(***************************************************************************)
MineAttempt ==
    /\ mpc = "loop"
    /\ ~startswith0000(mblock.hash)
    /\ mblock' = mine_attempt(mblock)
    /\ UNCHANGED <<mstart, mpc, ledger, others>>

MineReturn ==
    /\ mpc = "loop"
    /\ startswith0000(mblock.hash)
    /\ mpc' = "done"
    /\ UNCHANGED <<mblock, mstart, ledger, others>>

(***************************************************************************)
(* mine_pending_transactions, statement by statement, for callers that run *)
(* at the same time on one Blockchain                                      *)
(***************************************************************************)
Running == {"copied", "mining", "appended", "cleared"}

\* the calls that have not returned
calls_running == {t \in Threads : calls[t].pc \in Running}

\* transactions_to_mine = self.pending_transactions.copy(), and the reward
CallBegin(maxBlocks, t, m, reward) ==
    /\ calls[t].pc \in {"idle", "returned"}
    /\ Len(chain) + Cardinality(calls_running) <= maxBlocks
    /\ calls' = [calls EXCEPT ![t] =
                    [pc |-> "copied", miner_address |-> m,
                     transactions_to_mine |-> transactions_to_mine(pending_transactions, m, reward),
                     new_block |-> NoBlock, tip |-> 0]]
    /\ UNCHANGED <<ledger, miner, crypto, service>>

\* previous_block = self.chain[-1]; new_block = Block(len(self.chain), ...)
CallReadTip(t, now) ==
    /\ calls[t].pc = "copied"
    /\ calls' = [calls EXCEPT ![t].pc = "mining",
                              ![t].tip = Len(chain),
                              ![t].new_block =
                                  Block(Len(chain), now, calls[t].transactions_to_mine,
                                        chain[Len(chain)].hash, 0)]
    /\ UNCHANGED <<ledger, miner, crypto, service>>

\* one turn of the loop of mine_block
CallAttempt(t) ==
    /\ calls[t].pc = "mining"
    /\ ~startswith0000(calls[t].new_block.hash)
    /\ calls' = [calls EXCEPT ![t].new_block = mine_attempt(calls[t].new_block)]
    /\ UNCHANGED <<ledger, miner, crypto, service>>

\* a slip: the block is built again on the tip of the moment it is appended
CallAppendRelinked(t) ==
    /\ calls[t].pc = "mining"
    /\ startswith0000(calls[t].new_block.hash)
    /\ chain' = Append(chain, mine_block(Block(Len(chain), calls[t].new_block.timestamp,
                                               calls[t].transactions_to_mine,
                                               chain[Len(chain)].hash, 0)))
    /\ calls' = [calls EXCEPT ![t].pc = "appended"]
    /\ UNCHANGED <<pending_transactions, dev_users, public_keys, disk, tampered, last,
                   miner, crypto, service>>

\* a slip: the block is appended before the search has ended
CallAppendEarly(t) ==
    /\ calls[t].pc = "mining"
    /\ chain' = Append(chain, calls[t].new_block)
    /\ calls' = [calls EXCEPT ![t].pc = "appended"]
    /\ UNCHANGED <<pending_transactions, dev_users, public_keys, disk, tampered, last,
                   miner, crypto, service>>

\* mine_block returns; self.chain.append(mined_block)
CallAppend(t) ==
    /\ calls[t].pc = "mining"
    /\ startswith0000(calls[t].new_block.hash)
    /\ chain' = Append(chain, calls[t].new_block)
    /\ calls' = [calls EXCEPT ![t].pc = "appended"]
    /\ UNCHANGED <<pending_transactions, dev_users, public_keys, disk, tampered, last,
                   miner, crypto, service>>

\* a slip: the reset keeps what was appended to the pool after the copy
CallClearKeeping(t) ==
    /\ calls[t].pc = "appended"
    /\ pending_transactions' =
           SubSeq(pending_transactions,
                  Len(SelectSeq(calls[t].transactions_to_mine,
                                LAMBDA tx : tx.sender # SYSTEM)) + 1,
                  Len(pending_transactions))
    /\ calls' = [calls EXCEPT ![t].pc = "cleared"]
    /\ UNCHANGED <<chain, dev_users, public_keys, disk, tampered, last, miner, crypto, service>>

\* self.pending_transactions = []
CallClear(t) ==
    /\ calls[t].pc = "appended"
    /\ pending_transactions' = <<>>
    /\ calls' = [calls EXCEPT ![t].pc = "cleared"]
    /\ UNCHANGED <<chain, dev_users, public_keys, disk, tampered, last, miner, crypto, service>>

\* self.save_to_file(); return mined_block
CallSave(t, now, outcome) ==
    /\ calls[t].pc = "cleared"
    /\ disk' = save_to_file(disk, chain, pending_transactions, dev_users, now, outcome)
    /\ last' = [Call("mine_pending_transactions", "", outcome, NoTx, calls[t].miner_address)
                EXCEPT !.index = t]
    /\ calls' = [calls EXCEPT ![t].pc = "returned"]
    /\ UNCHANGED <<chain, pending_transactions, dev_users, public_keys, tampered,
                   miner, crypto, service>>

\* the search is interrupted: the call ends by an exception, its block dropped
CallInterrupt(t) ==
    /\ calls[t].pc = "mining"
    /\ calls' = [calls EXCEPT ![t] = IdleCall]
    /\ last' = [Call("mine_pending_transactions", "interrupted", "none", NoTx,
                     calls[t].miner_address) EXCEPT !.index = t]
    /\ UNCHANGED <<chain, pending_transactions, dev_users, public_keys, disk, tampered,
                   miner, crypto, service>>

\* the process is stopped with calls in progress and started again
Crash(draw, now, outcome) ==
    /\ calls_running # {}
    /\ Construct(disk, DOMAIN public_keys, draw, now, outcome)
    /\ calls' = [t \in Threads |-> IdleCall]
    /\ UNCHANGED <<miner, crypto, service>>

(***************************************************************************)
(* crypto.py called on its own                                             *)
(***************************************************************************)
SignMessage(message, private_key_hex) ==
    /\ crypto' = [op |-> "sign_message", message |-> message, key |-> private_key_hex,
                  signature |-> sign_message(message, private_key_hex), tx |-> NoTx,
                  result |-> TRUE, error |-> ""]
    /\ UNCHANGED <<ledger, miner, calls, service>>

\* signatures that are none: None, no hex, hex of another length
BadSignatures == {NoSig, MalformedSig, ShortSig}

\* verify_signature on a signature at hand: the last one made or verified
VerifySignature(message, signature, public_key_hex) ==
    /\ crypto.op # "none"
    /\ signature \in {crypto.signature} \cup BadSignatures
    /\ crypto' = [op |-> "verify_signature", message |-> message, key |-> public_key_hex,
                  signature |-> signature, tx |-> NoTx,
                  result |-> verify_signature(message, signature, public_key_hex),
                  error |-> verify_signature_raises(message, signature, public_key_hex)]
    /\ UNCHANGED <<ledger, miner, calls, service>>

\* sign_transaction; without a timestamp it signs for the reading of the clock
SignTransaction(sender, receiver, amount, private_key_hex, timestamp, now) ==
    /\ LET signature == sign_transaction(sender, receiver, amount, private_key_hex,
                                         timestamp_or_now(timestamp, now))
       IN  crypto' = [op |-> "sign_transaction", message |-> "", key |-> private_key_hex,
                      signature |-> signature,
                      tx |-> Transaction(sender, receiver, amount, signature, NoProof, timestamp),
                      result |-> TRUE, error |-> ""]
    /\ UNCHANGED <<ledger, miner, calls, service>>

\* generate_zk_proof: it draws a nonce
GenerateProof(sender, receiver, amount, private_key_hex, nonce) ==
    /\ crypto' = [op |-> "generate_zk_proof", message |-> "", key |-> private_key_hex,
                  signature |-> NoSig,
                  tx |-> Transaction(sender, receiver, amount, NoSig,
                                     generate_zk_proof(sender, receiver, amount,
                                                       private_key_hex, nonce), None),
                  result |-> TRUE, error |-> ""]
    /\ UNCHANGED <<ledger, miner, calls, service>>

\* verify_zk_proof of a proof against a sender, a receiver and an amount
VerifyProof(proof, sender, receiver, amount) ==
    /\ crypto' = [op |-> "verify_zk_proof", message |-> "", key |-> "",
                  signature |-> NoSig,
                  tx |-> Transaction(sender, receiver, amount, NoSig, proof, None),
                  result |-> verify_zk_proof(proof, sender, receiver, amount),
                  error |-> ""]
    /\ UNCHANGED <<ledger, miner, calls, service>>

\* verify_transaction_signature on the transaction at hand, with its
\* signature or with one that is none
VerifyTransaction(signature, public_key_hex, now) ==
    /\ crypto.tx # NoTx
    /\ signature \in {crypto.tx.signature} \cup BadSignatures
    /\ LET tx == crypto.tx
           timestamp == timestamp_or_now(tx.timestamp, now)
       IN  crypto' = [op |-> "verify_transaction_signature", message |-> "",
                      key |-> public_key_hex, signature |-> signature, tx |-> tx,
                      result |-> verify_transaction_signature(
                                     tx.sender, tx.receiver, tx.amount, signature,
                                     public_key_hex, timestamp),
                      error |-> verify_transaction_signature_raises(
                                    tx.sender, tx.receiver, tx.amount, signature,
                                    public_key_hex, timestamp)]
    /\ UNCHANGED <<ledger, miner, calls, service>>

\* verify_transaction_signature of the signature at hand, the last one made,
\* for a sender, receiver, amount and timestamp of the caller's choice
VerifyTransactionAs(sender, receiver, amount, timestamp, public_key_hex) ==
    /\ crypto.op \in {"sign_transaction", "verify_transaction_signature"}
    /\ crypto' = [op |-> "verify_transaction_signature", message |-> "",
                  key |-> public_key_hex, signature |-> crypto.signature,
                  tx |-> Transaction(sender, receiver, amount, crypto.signature, NoProof,
                                     timestamp),
                  result |-> verify_transaction_signature(
                                 sender, receiver, amount, crypto.signature,
                                 public_key_hex, timestamp),
                  error |-> verify_transaction_signature_raises(
                                sender, receiver, amount, crypto.signature,
                                public_key_hex, timestamp)]
    /\ UNCHANGED <<ledger, miner, calls, service>>

(***************************************************************************)
(* auth.py: AuthManager. Time is counted in minutes; a token is the number *)
(* of the draw of secrets.token_hex that made it, so no two are equal      *)
(***************************************************************************)
\* timedelta(minutes=5)
challenge_expiry == 5
\* timedelta(hours=24)
session_expiry == 24 * 60

\* f"codychain_login_{username}_{secrets.token_hex(16)}"
challenge_message(username, draw) ==
    "codychain_login_" \o username \o "_" \o ToString(draw)

Restrict(d, keep) == [t \in keep |-> d[t]]

\* now - data["timestamp"] > self.challenge_expiry
challenge_expired(data, now) == now - data.timestamp > challenge_expiry

\* a slip: a session ends as its last minute begins
session_expired_early(session, now) == now >= session.expires_at

\* now > session["expires_at"]
session_expired(session, now) == now > session.expires_at

cleanup_expired_challenges(ch, now) ==
    Restrict(ch, {t \in DOMAIN ch : ~challenge_expired(ch[t], now)})

cleanup_expired_sessions(ss, now) ==
    Restrict(ss, {t \in DOMAIN ss : ~session_expired(ss[t], now)})

Put(d, token, entry) == [t \in DOMAIN d \cup {token} |-> IF t = token THEN entry ELSE d[t]]

Reply(op, token, signature, value, status) ==
    [op |-> op, token |-> token, signature |-> signature, value |-> value,
     status |-> status, users |-> EmptyDict, address |-> None]

\* verify_login returns None: no token, as tokens are counted from 1
NoSession == 0

Issued(kind, username, now) ==
    [kind |-> kind, username |-> username, at |-> now, out |-> FALSE]

AuthFrame == UNCHANGED <<ledger, miner, calls, crypto, auth_public_keys, clock>>

\* the clock moves on
Tick(minutes) ==
    /\ clock.ticks < MaxTicks
    /\ clock' = [utcnow |-> clock.utcnow + minutes, ticks |-> clock.ticks + 1]
    /\ UNCHANGED <<ledger, miner, calls, crypto, challenges, sessions, auth_public_keys,
                   issued, reply>>

GenerateChallenge(username) ==
    /\ IF username \notin DOMAIN auth_public_keys
       THEN /\ reply' = Reply("generate_challenge", 0, NoSig, "ValueError", 0)
            /\ UNCHANGED <<challenges, issued>>
       ELSE /\ Len(issued) < MaxTokens
            /\ LET challenge_token == Len(issued) + 1
                   data == [username |-> username,
                            challenge |-> challenge_message(username, challenge_token),
                            timestamp |-> clock.utcnow]
               IN  /\ challenges' = cleanup_expired_challenges(
                                        Put(challenges, challenge_token, data), clock.utcnow)
                   /\ issued' = Append(issued, Issued("challenge", username, clock.utcnow))
                   /\ reply' = Reply("generate_challenge", challenge_token, NoSig,
                                     data.challenge, 0)
    /\ UNCHANGED sessions
    /\ AuthFrame

\* the session verify_login creates, and the sessions it leaves
login_sessions(ss, session_token, username, now) ==
    cleanup_expired_sessions(
        Put(ss, session_token, [username |-> username, expires_at |-> now + session_expiry]),
        now)

\* a slip: the signature is verified under the key of any user
login_valid_any_key(data, signature_hex, keys) ==
    \E u \in DOMAIN keys : verify_signature(data.challenge, signature_hex, keys[u])

\* `if username not in self.public_keys: return None', `if not is_valid: return None'
login_valid(data, signature_hex, keys) ==
    /\ data.username \in DOMAIN keys
    /\ verify_signature(data.challenge, signature_hex, keys[data.username])

\* a slip: the challenge stays after a login
used_challenge_kept(ch, challenge_token) == ch

\* `del self.challenges[challenge_token]'
used_challenge_removed(ch, challenge_token) ==
    Restrict(ch, DOMAIN ch \ {challenge_token})

VerifyLogin(challenge_token, signature_hex) ==
    /\ IF challenge_token \notin DOMAIN challenges
       THEN /\ reply' = Reply("verify_login", challenge_token, signature_hex, NoSession, 0)
            /\ UNCHANGED <<challenges, sessions, issued>>
       ELSE IF challenge_expired(challenges[challenge_token], clock.utcnow)
       THEN /\ challenges' = Restrict(challenges, DOMAIN challenges \ {challenge_token})
            /\ reply' = Reply("verify_login", challenge_token, signature_hex, NoSession, 0)
            /\ UNCHANGED <<sessions, issued>>
       ELSE IF ~login_valid(challenges[challenge_token], signature_hex, auth_public_keys)
       THEN /\ reply' = Reply("verify_login", challenge_token, signature_hex, NoSession, 0)
            /\ UNCHANGED <<challenges, sessions, issued>>
       ELSE /\ Len(issued) < MaxTokens
            /\ LET session_token == Len(issued) + 1
                   username == challenges[challenge_token].username
               IN  /\ sessions' = login_sessions(sessions, session_token, username,
                                                 clock.utcnow)
                   /\ issued' = Append(issued, Issued("session", username, clock.utcnow))
                   /\ reply' = Reply("verify_login", challenge_token, signature_hex,
                                     session_token, 0)
            /\ challenges' = used_challenge_removed(challenges, challenge_token)
    /\ AuthFrame

\* what verify_session returns, None included
verify_session(ss, session_token, now) ==
    IF session_token \notin DOMAIN ss THEN None
    ELSE IF session_expired(ss[session_token], now) THEN None
    ELSE ss[session_token].username

\* the sessions verify_session leaves
verify_session_sessions(ss, session_token, now) ==
    IF session_token \in DOMAIN ss /\ session_expired(ss[session_token], now)
    THEN Restrict(ss, DOMAIN ss \ {session_token})
    ELSE ss

VerifySession(session_token) ==
    /\ reply' = Reply("verify_session", session_token, NoSig,
                      verify_session(sessions, session_token, clock.utcnow), 0)
    /\ sessions' = verify_session_sessions(sessions, session_token, clock.utcnow)
    /\ UNCHANGED <<challenges, issued>>
    /\ AuthFrame

Logout(session_token) ==
    /\ IF session_token \in DOMAIN sessions
       THEN /\ sessions' = Restrict(sessions, DOMAIN sessions \ {session_token})
            /\ issued' = [issued EXCEPT ![session_token].out = TRUE]
            /\ reply' = Reply("logout", session_token, NoSig, "True", 0)
       ELSE /\ reply' = Reply("logout", session_token, NoSig, "False", 0)
            /\ UNCHANGED <<sessions, issued>>
    /\ UNCHANGED challenges
    /\ AuthFrame

(***************************************************************************)
(* main.py: the endpoints POST /transaction/new and POST /mine. Each is an *)
(* async function without an await, so it runs from start to end alone     *)
(***************************************************************************)
\* the Authorization header: absent, "Bearer <token>", or the bare token
NoAuthorization == [scheme |-> "none", token |-> 0]

\* `if not authorization'
AuthorizationGiven(authorization) == authorization.scheme # "none"

\* authorization.replace("Bearer ", "").strip()
session_token_of(authorization) == authorization.token

\* a slip: the first address of the registry, whoever's it is
user_address_first(users, username) ==
    IF DOMAIN users = {} THEN None ELSE CHOOSE a \in DOMAIN users : TRUE

\* the address the endpoints look up for the logged-in user, None without one
user_address(users, username) ==
    IF \E a \in DOMAIN users : users[a] = username
    THEN CHOOSE a \in DOMAIN users : users[a] = username
    ELSE None

\* the status the guards of both endpoints answer with, 0 when they pass:
\* 401 without a header or a session, 404 without an address, 403 for the
\* address of another
guard_status(authorization, address, given) ==
    LET username == verify_session(sessions, session_token_of(authorization), clock.utcnow)
        own == user_address(get_dev_users(dev_users), username)
    IN  IF ~AuthorizationGiven(authorization) THEN 401
        ELSE IF username = None THEN 401
        ELSE IF own = None THEN 404
        ELSE IF given /\ address # own THEN 403
        ELSE 0

\* what a rejected request leaves: an expired session is removed by verify_session
Rejected(op, authorization, address, signature, status) ==
    /\ reply' = [Reply(op, session_token_of(authorization), signature, None, status)
                 EXCEPT !.address = address]
    /\ sessions' = IF AuthorizationGiven(authorization)
                   THEN verify_session_sessions(sessions, session_token_of(authorization),
                                                clock.utcnow)
                   ELSE sessions
    /\ UNCHANGED <<ledger, miner, calls, crypto, challenges, auth_public_keys, clock, issued>>

\* POST /transaction/new
CreateTransaction(maxTxs, authorization, transaction, now, outcome) ==
    LET status == guard_status(authorization, transaction.sender, TRUE)
        tx == [transaction EXCEPT
                  !.timestamp = IF StrTruthy(transaction.timestamp)
                                THEN transaction.timestamp ELSE now]
    IN  IF status # 0
        THEN Rejected("create_transaction", authorization, transaction.sender,
                      transaction.signature, status)
        ELSE /\ AddTransactionLedger(maxTxs, tx, now, outcome)
             /\ reply' = [Reply("create_transaction", session_token_of(authorization),
                                transaction.signature,
                                sessions[session_token_of(authorization)].username,
                                IF last'.error # "" THEN 400 ELSE 200)
                          EXCEPT !.address = transaction.sender]
             /\ UNCHANGED <<dev_users, public_keys, tampered, miner, calls, crypto,
                            challenges, sessions, auth_public_keys, clock, issued>>

\* POST /mine
MineBlock(maxBlocks, authorization, miner_address, reward, now, outcome) ==
    LET status == guard_status(authorization, miner_address, MinerGiven(miner_address))
        username == verify_session(sessions, session_token_of(authorization), clock.utcnow)
        final_miner_address == IF MinerGiven(miner_address) THEN miner_address
                               ELSE user_address(get_dev_users(dev_users), username)
    IN  IF status # 0
        THEN Rejected("mine_block", authorization, miner_address, NoSig, status)
        ELSE /\ MinePendingLedger(maxBlocks, final_miner_address, reward, now, outcome)
             /\ reply' = [Reply("mine_block", session_token_of(authorization), NoSig,
                                username, 200)
                          EXCEPT !.address = miner_address]
             /\ UNCHANGED <<dev_users, public_keys, tampered, miner, calls, crypto,
                            challenges, sessions, auth_public_keys, clock, issued>>

(***************************************************************************)
(* Inputs                                                                  *)
(***************************************************************************)
Miners == {None, "A1B2"}

Transfer == Transaction("A1B2", "C3D4", 100, NoSig, NoProof, None)

\* unsigned transfers
CoreTxs == {Transfer, Transaction("C3D4", "A1B2", 25, NoSig, NoProof, "t1")}

OneDraw == {[i \in 1..Len(DevNames) |-> IF i = 1 THEN "A1B2" ELSE "C3D4"]}

\* signatures a caller may attach to a transfer: none, the empty string, one
\* that is no signature, one by each key, one over another amount
SignaturesFor(sender, receiver, amount, timestamp) ==
    {NoSig, EmptySig, MalformedSig, ShortSig,
     sign_transaction(sender, receiver, amount, "sk_cody", timestamp),
     sign_transaction(sender, receiver, amount, "sk_ezzy", timestamp),
     sign_transaction(sender, receiver, amount + 1, "sk_cody", timestamp)}

\* proofs a caller may attach: the empty dict, a generated one, one for
\* another amount, and generated ones with one component changed
ProofsFor(sender, receiver, amount) ==
    LET good == generate_zk_proof(sender, receiver, amount, "sk_cody", "n1")
    IN  {EmptyProof, good,
         generate_zk_proof(sender, receiver, amount + 1, "sk_cody", "n1"),
         [good EXCEPT !.response = "hex16"],
         [good EXCEPT !.response = "nothex"],
         [good EXCEPT !.challenge = proof_challenge(commitment_hex("n2"), good.message_hash)],
         [good EXCEPT !.commitment = ""]}

\* senders: an address, a name, an address whose name may have no key, neither
AdmitSenders == {"A1B2", "cody", "C3D4", "ZZZZ"}
\* transfers with every kind of signature
SignedTxs ==
    UNION {{Transaction(s, "C3D4", 100, sig, NoProof, Times[1]) :
               sig \in SignaturesFor(s, "C3D4", 100, Times[1])} : s \in AdmitSenders}
\* transfers without a timestamp, signed for a reading of the clock
UntimedTxs ==
    {Transaction("A1B2", "C3D4", 100, sign_transaction("A1B2", "C3D4", 100, "sk_cody", t),
                 NoProof, None) : t \in TimeSet}
\* transfers with every kind of proof
ProvedTxs ==
    {Transaction("cody", "C3D4", 25, sign_transaction("cody", "C3D4", 25, "sk_cody", Times[1]),
                 proof, Times[1]) : proof \in ProofsFor("cody", "C3D4", 25)}
    \cup
    {Transaction("cody", "C3D4", 25, sig, generate_zk_proof("cody", "C3D4", 26, "sk_cody", "n1"),
                 Times[1]) : sig \in {NoSig, MalformedSig}}
    \cup
    {Transaction("ZZZZ", "C3D4", 25, MalformedSig, generate_zk_proof("ZZZZ", "C3D4", 26, "sk_cody", "n1"),
                 Times[1])}
AdmitInputs == SignedTxs \cup UntimedTxs \cup ProvedTxs

\* the registries of the admission slice: ezzy gets an address of her own, or cody's
AdmitDraws == {d \in Draws : d[1] = "A1B2"}

\* messages: text, even-length hex of either case, the empty string, a digest
CryptoMessages == {"hi", "6869", "6A", "6a", "686", "",
                   sha256hex(canonical_message("A1B2", "C3D4", 100, Times[1]))}
\* amounts: a whole number, one with a decimal, zero
CryptoAmounts == {100, 25, 0}
\* transfers of cody with every kind of signature
CryptoTxs == {tx \in SignedTxs : tx.sender = "cody" /\ SigTruthy(tx.signature)}
\* what a caller may make of a proof before it is verified: the proof as it
\* is, with one component emptied or changed, and the empty dict
ProofVariants(proof) ==
    {proof, EmptyProof}
    \cup {[proof EXCEPT ![f] = ""] :
             f \in {"commitment", "challenge", "response", "message_hash"}}
    \cup {[proof EXCEPT !.response = r] : r \in {"hex16", "nothex"}}
    \cup {[proof EXCEPT !.commitment = commitment_hex(n)] : n \in Nonces}
\* users who ask for a challenge: two with key files, one without
AuthUsers == {"cody", "ezzy", "mallory"}
\* tokens: every token that can be given out, and one that never is
AuthTokens == 1..(MaxTokens + 1)
\* tokens a caller may present: every token given out so far, and one that was not
PresentedTokens == 1..(Len(issued) + 1)
\* movements of the clock, in minutes
ClockSteps == {challenge_expiry, session_expiry}
\* signatures a caller may send with a challenge token: the message of that
\* challenge signed with either key, and cody's signature of the message of
\* another challenge
LoginSignatures(challenge_token) ==
    LET username == IF challenge_token \in DOMAIN challenges
                    THEN challenges[challenge_token].username ELSE "cody"
    IN  {sign_message(challenge_message("cody", challenge_token + 1), "sk_cody")}
        \cup {sign_message(challenge_message(username, challenge_token), sk) :
                 sk \in DOMAIN PublicOf}
Bearer(session_token) == [scheme |-> "Bearer", token |-> session_token]
\* Authorization headers a caller may send: none, and "Bearer " with every
\* session token given out so far and with a token that was not
Authorizations ==
    {NoAuthorization, Bearer(Len(issued) + 1)}
    \cup {Bearer(t) : t \in {i \in 1..Len(issued) : issued[i].kind = "session"}}
\* the signature a user logs in with: the user's own, over the challenge
OwnSignature(challenge_token) ==
    LET username == IF challenge_token \in DOMAIN challenges
                    THEN challenges[challenge_token].username ELSE "cody"
    IN  sign_message(challenge_message(username, challenge_token),
                     IF username = "cody" THEN "sk_cody" ELSE "sk_ezzy")
\* transfers sent to POST /transaction/new: from either address, unsigned
\* or with a signature that is none
ServiceTx(sender, signature) == Transaction(sender, "C3D4", 100, signature, NoProof, None)
ServiceTxs == {ServiceTx(sender, NoSig) : sender \in AddrPool}
                  \cup {ServiceTx("A1B2", MalformedSig)}
\* public keys handed to verify_signature, one of them no key
CryptoKeys == {PublicOf[sk] : sk \in DOMAIN PublicOf} \cup {"nokey"}

\* blocks handed to mine_block, fresh from Block.__init__
MineInputs ==
    {Block(index, now, txs, previous_hash, nonce) :
        index \in 0..MaxBlocks, now \in TimeSet,
        txs \in {<<>>, <<Transfer>>, <<Transfer, reward_tx("A1B2", 14)>>},
        previous_hash \in {GenesisPrevious, create_genesis_block(Times[1]).hash},
        nonce \in 0..MaxStartNonce}

(***************************************************************************)
(* Specifications: the same operations over different slices of the inputs *)
(***************************************************************************)
LedgerBoot(fileSets, draws, times, outcomes) ==
    \E files \in fileSets, draw \in draws, now \in times, outcome \in outcomes :
        Bootstrap(files, draw, now, outcome)

LedgerInit(fileSets, draws, times, outcomes) ==
    /\ LedgerBoot(fileSets, draws, times, outcomes)
    /\ MinerIdle
    /\ OthersIdle

LedgerNext(txs, maxTxs, maxBlocks, miners, rewards, times, draws, outcomes) ==
    \/ \E tx \in txs, now \in times, outcome \in outcomes :
           AddTransaction(maxTxs, tx, now, outcome)
    \/ \E m \in miners, reward \in rewards, now \in times, outcome \in outcomes :
           MinePending(maxBlocks, m, reward, now, outcome)
    \/ \E draw \in draws, now \in times, outcome \in outcomes :
           Restart(draw, now, outcome)

\* the chain: two kinds of transfer, both clock readings, the largest reward, every save succeeds
Init == LedgerInit({{"cody"}}, OneDraw, TimeSet, {"ok"})
Next == LedgerNext(CoreTxs, MaxTxs, MaxBlocks, Miners, {14}, TimeSet, OneDraw, {"ok"})
Spec == Init /\ [][Next]_vars

\* mining: every reward _calculate_mining_reward can draw, with and without a miner
InitReward == LedgerInit({{"cody"}}, OneDraw, {Times[1]}, {"ok"})
NextReward == LedgerNext({Transfer}, MaxTxs, RewardBlocks, {None, "", "A1B2"},
                         calculate_mining_reward, {Times[1]}, OneDraw, {"ok"})
SpecReward == InitReward /\ [][NextReward]_vars

\* persistence: every outcome of a save, and restarts on what the disk holds
InitDisk == LedgerInit({{"cody"}}, OneDraw, {Times[1]}, SaveOutcomes)
NextDisk == LedgerNext({Transfer}, MaxTxs, MaxBlocks, Miners, {14}, {Times[1]},
                       OneDraw, SaveOutcomes)
SpecDisk == InitDisk /\ [][NextDisk]_vars

\* admission: every kind of signature and proof
InitAdmit == LedgerInit({{"cody"}}, AdmitDraws, {Times[1]}, {"ok"})
NextAdmit == \E tx \in AdmitInputs, now \in TimeSet : AddTransaction(AdmitTxs, tx, now, "ok")
SpecAdmit == InitAdmit /\ [][NextAdmit]_vars

\* a block field is modified from outside, once
InitTamper == LedgerInit({{"cody"}}, OneDraw, {Times[1]}, {"ok"})
NextTamper ==
    \/ LedgerNext({Transfer}, MaxTxs, MaxBlocks, Miners, {14}, {Times[1]}, OneDraw, {"ok"})
    \/ \E i \in 1..(MaxBlocks + 1), field \in TamperFields : Tamper(i, field)
SpecTamper == InitTamper /\ [][NextTamper]_vars

\* loading: the file is damaged from outside between a save and a restart
InitLoad == LedgerInit({{"cody"}}, OneDraw, {Times[1]}, {"ok"})
NextLoad ==
    \/ LedgerNext({Transfer}, MaxTxs, MaxBlocks, Miners, {14}, {Times[1]}, OneDraw, {"ok"})
    \/ \E i \in 1..(MaxBlocks + 1), key \in DamageKeys : DamageBlock(i, key)
    \/ \E j \in 1..MaxTxs : DamagePending(j)
    \/ Truncate
SpecLoad == InitLoad /\ [][NextLoad]_vars

\* one process, from its start on: every call of the ledger, every outcome of a save
InitCalls == LedgerInit({{"cody"}}, OneDraw, {Times[1]}, SaveOutcomes)
NextCalls ==
    \/ \E outcome \in SaveOutcomes : AddTransaction(MaxTxs, Transfer, Times[1], outcome)
    \/ \E m \in Miners, outcome \in SaveOutcomes :
           MinePending(MaxBlocks, m, 14, Times[1], outcome)
    \/ ValidateChain
    \/ \E address \in {"A1B2", "C3D4"} : ComputeBalance(address)
    \/ \E outcome \in SaveOutcomes : SaveToFile(Times[1], outcome)
SpecCalls == InitCalls /\ [][NextCalls]_vars

\* the calls that only read, on chains as mined and on chains modified from outside
InitReadOnly == LedgerInit({{"cody"}}, OneDraw, {Times[1]}, {"ok"})
NextReadOnly ==
    \/ AddTransaction(MaxTxs, Transfer, Times[1], "ok")
    \/ MinePending(RewardBlocks, "A1B2", 14, Times[1], "ok")
    \/ \E i \in 1..(RewardBlocks + 1), field \in TamperFields : Tamper(i, field)
    \/ ValidateChain
    \/ \E address \in {"A1B2", "C3D4"} : ComputeBalance(address)
    \/ GetDevUsers
    \/ \E outcome \in SaveOutcomes : SaveToFile(Times[1], outcome)
SpecReadOnly == InitReadOnly /\ [][NextReadOnly]_vars

\* transfers without a signature and without a proof: of a key holder by
\* address and by name, of a user without a key, of a stranger and of SYSTEM;
\* a positive, a zero and a negative amount
OpenAmounts == {100, 0, -25}
OpenTxs ==
    {Transaction(s, "C3D4", a, sig, proof, None) :
        s \in AdmitSenders \cup {SYSTEM}, a \in OpenAmounts,
        sig \in {NoSig, EmptySig}, proof \in {NoProof, EmptyProof}}
\* and one a key holder signed badly
InitOpen == LedgerInit({{"cody"}}, OneDraw, {Times[1]}, {"ok"})
NextOpen ==
    \E tx \in OpenTxs \cup {Transaction("A1B2", "C3D4", 100, MalformedSig, NoProof, None)},
       outcome \in SaveOutcomes :
        AddTransaction(AdmitTxs, tx, Times[1], outcome)
SpecOpen == InitOpen /\ [][NextOpen]_vars

\* the fields of a transfer as strings of the caller's choice, some with ':'
BindSenders == {"A1B2", "A1B2:X"}
BindReceivers == {"C3D4", "X:C3D4", "C3D4:2.5"}
BindAmounts == {100, 25}
BindTimestamps == {Times[1], "10.0:" \o Times[1]}
\* a signature is made for one choice and verified for any other
InitBind == LedgerInit({{"cody"}}, OneDraw, {Times[1]}, {"ok"})
NextBind ==
    \/ \E sender \in BindSenders, receiver \in BindReceivers, amount \in BindAmounts,
          timestamp \in BindTimestamps, sk \in DOMAIN PublicOf :
           SignTransaction(sender, receiver, amount, sk, timestamp, Times[1])
    \/ \E sender \in BindSenders, receiver \in BindReceivers, amount \in BindAmounts,
          timestamp \in BindTimestamps, pk \in CryptoKeys :
           VerifyTransactionAs(sender, receiver, amount, timestamp, pk)
SpecBind == InitBind /\ [][NextBind]_vars

\* transfers between users, to the address "SYSTEM" and from it (this one
\* with a timestamp, which a reward has not), mined for a user, for "SYSTEM"
\* or for nobody
ValueTxs ==
    {Transfer,
     Transaction("A1B2", SYSTEM, 25, NoSig, NoProof, None),
     Transaction(SYSTEM, "C3D4", 50, NoSig, NoProof, Times[1])}
InitValue == LedgerInit({{"cody"}}, OneDraw, {Times[1]}, {"ok"})
NextValue ==
    \/ \E tx \in ValueTxs : AddTransaction(MaxTxs, tx, Times[1], "ok")
    \/ \E m \in Miners \cup {SYSTEM}, reward \in {1, 14} :
           MinePending(MaxBlocks, m, reward, Times[1], "ok")
SpecValue == InitValue /\ [][NextValue]_vars

\* one process, one call at a time: admissions of two kinds of transfer and
\* mining, every outcome of a save
InitOrder == LedgerInit({{"cody"}}, OneDraw, {Times[1]}, {"ok"})
NextOrder ==
    \/ \E tx \in CoreTxs, outcome \in SaveOutcomes :
           AddTransaction(MaxTxs, tx, Times[1], outcome)
    \/ \E m \in Miners, outcome \in SaveOutcomes :
           MinePending(MaxBlocks, m, 14, Times[1], outcome)
SpecOrder == InitOrder /\ [][NextOrder]_vars

\* sign_message and verify_signature on every message, key pair and public key
InitSign == LedgerInit({{"cody"}}, OneDraw, {Times[1]}, {"ok"})
NextSign ==
    \/ \E message \in CryptoMessages, sk \in DOMAIN PublicOf : SignMessage(message, sk)
    \/ \E message \in CryptoMessages, pk \in CryptoKeys :
           \E signature \in {crypto.signature} \cup BadSignatures :
               VerifySignature(message, signature, pk)
    \/ \E sender \in {"A1B2", "cody"}, amount \in CryptoAmounts, sk \in DOMAIN PublicOf,
          timestamp \in TimeSet \cup {None}, now \in TimeSet :
           SignTransaction(sender, "C3D4", amount, sk, timestamp, now)
    \/ \E pk \in CryptoKeys, now \in TimeSet :
           \E signature \in {crypto.tx.signature} \cup BadSignatures :
               VerifyTransaction(signature, pk, now)
    \/ \E tx \in CryptoTxs : AddTransaction(AdmitTxs, tx, Times[1], "ok")
SpecSign == InitSign /\ [][NextSign]_vars

\* the AuthManager: challenges, logins, sessions and the clock
InitAuth == LedgerInit({{"cody", "ezzy"}}, OneDraw, {Times[1]}, {"ok"})
NextAuth ==
    \/ \E username \in AuthUsers : GenerateChallenge(username)
    \/ \E challenge_token \in PresentedTokens :
           \E signature \in LoginSignatures(challenge_token) :
               VerifyLogin(challenge_token, signature)
    \/ \E session_token \in PresentedTokens : VerifySession(session_token)
    \/ \E session_token \in PresentedTokens : Logout(session_token)
    \/ \E minutes \in ClockSteps : Tick(minutes)
SpecAuth == InitAuth /\ [][NextAuth]_vars

\* the endpoints, behind logins; ezzy's address is her own, or cody's; the
\* clock moves by a day at a time while a session is held
InitService == LedgerInit({{"cody", "ezzy"}}, AdmitDraws, {Times[1]}, {"ok"})
NextService ==
    \/ \E username \in {"cody", "ezzy"} : GenerateChallenge(username)
    \/ \E challenge_token \in PresentedTokens :
           VerifyLogin(challenge_token, OwnSignature(challenge_token))
    \/ sessions # EmptyDict /\ Tick(session_expiry)
    \/ \E authorization \in Authorizations, transaction \in ServiceTxs :
           CreateTransaction(AdmitTxs, authorization, transaction, Times[1], "ok")
    \/ \E authorization \in Authorizations, miner_address \in {None} \cup AddrPool :
           MineBlock(RewardBlocks, authorization, miner_address, 14, Times[1], "ok")
SpecService == InitService /\ [][NextService]_vars

\* proofs: generate_zk_proof and verify_zk_proof, called directly
InitProof == LedgerInit({{"cody"}}, OneDraw, {Times[1]}, {"ok"})
NextProof ==
    \/ \E sender \in {"A1B2", "cody"}, amount \in CryptoAmounts, sk \in DOMAIN PublicOf,
          nonce \in Nonces :
           GenerateProof(sender, "C3D4", amount, sk, nonce)
    \/ \E sender \in {"A1B2", "cody"}, amount \in CryptoAmounts :
           \E proof \in ProofVariants(crypto.tx.zk_proof) :
               VerifyProof(proof, sender, "C3D4", amount)
SpecProof == InitProof /\ [][NextProof]_vars

\* two callers of mine_pending_transactions at the same time
InitThreads == LedgerInit({{"cody"}}, OneDraw, {Times[1]}, {"ok"})
NextThreads ==
    \/ AddTransaction(RaceTxs, Transfer, Times[1], "ok")
    \/ \E t \in Threads : CallBegin(RaceBlocks, t, "A1B2", 14)
    \/ \E t \in Threads, now \in TimeSet : CallReadTip(t, now)
    \/ \E t \in Threads : CallAttempt(t)
    \/ \E t \in Threads : CallAppend(t)
    \/ \E t \in Threads : CallClear(t)
    \/ \E t \in Threads : CallSave(t, Times[1], "ok")
    \/ \E t \in Threads : CallInterrupt(t)
    \/ \E draw \in OneDraw : Crash(draw, Times[1], "ok")
SpecThreads == InitThreads /\ [][NextThreads]_vars

\* mine_block alone, on a block of MineInputs
InitMine ==
    /\ LedgerBoot({{"cody"}}, OneDraw, {Times[1]}, {"ok"})
    /\ \E b \in MineInputs :
           /\ mblock = b
           /\ mstart = b.nonce
           /\ mpc = "loop"
    /\ OthersIdle
NextMine == MineAttempt \/ MineReturn
SpecMine == InitMine /\ [][NextMine]_vars

(***************************************************************************)
(* Properties of the chain (Spec)                                          *)
(***************************************************************************)
MineOp == "mine_pending_transactions"
AddOp == "add_transaction"

\* C1: in every state reached from a fresh bootstrap by add_transaction and
\* mine_pending_transactions, every block after the first holds the stored
\* hash of the block before it as previous_hash, and every block's stored
\* hash is the hash of its index, timestamp, transactions, previous_hash
\* and nonce.
C1_Linked ==
    /\ \A i \in 2..Len(chain) : chain[i].previous_hash = chain[i - 1].hash
    /\ \A i \in 1..Len(chain) :
           chain[i].hash = compute_hash(chain[i].index, chain[i].timestamp,
                                        chain[i].transactions, chain[i].previous_hash,
                                        chain[i].nonce)

C1_Witness ==
    /\ Len(chain) = 3
    /\ chain[2].transactions # <<>>
    /\ chain[3].transactions # <<>>
    /\ chain[3].nonce > 0
    /\ last.op = MineOp

\* C2: validate_chain() is true right after every mine_pending_transactions
\* and in every later state that add_transaction and
\* mine_pending_transactions reach, no block field being modified from
\* outside.
C2_ValidAfterMining ==
    (Len(chain) >= 2 /\ ~tampered) => validate_chain(chain)

C2_Witness ==
    /\ Len(chain) = 3
    /\ last.op = AddOp
    /\ last.error = ""
    /\ Len(pending_transactions) = 1
    /\ validate_chain(chain)
    /\ \E i \in 2..3 : chain[i].nonce > 0

\* the positions <<block, transaction>> of the chain
TxPositions(c) ==
    UNION {{<<i, j>> : j \in 1..Len(c[i].transactions)} : i \in 1..Len(c)}

RECURSIVE SumAmounts(_, _)
SumAmounts(c, ps) ==
    IF ps = {} THEN 0
    ELSE LET p == CHOOSE p \in ps : TRUE
         IN  c[p[1]].transactions[p[2]].amount + SumAmounts(c, ps \ {p})

Received(c, address) ==
    SumAmounts(c, {p \in TxPositions(c) : c[p[1]].transactions[p[2]].receiver = address})
Sent(c, address) ==
    SumAmounts(c, {p \in TxPositions(c) : c[p[1]].transactions[p[2]].sender = address})

BalanceAddresses == {"A1B2", "C3D4", SYSTEM, "ZZZZ"}

\* C5: compute_balance(address) is the sum of the amounts the address
\* receives in the blocks of the chain minus the sum of those it sends; the
\* pending pool never counts, so add_transaction leaves every balance as it
\* was and a balance changes only when a block is mined; an address that is
\* in no mined transaction has balance 0.
C5_Balance ==
    /\ [](\A a \in BalanceAddresses :
            /\ compute_balance(chain, a) = Received(chain, a) - Sent(chain, a)
            /\ (\A p \in TxPositions(chain) :
                    /\ chain[p[1]].transactions[p[2]].sender # a
                    /\ chain[p[1]].transactions[p[2]].receiver # a)
               => compute_balance(chain, a) = 0)
    /\ [][\A a \in BalanceAddresses :
            /\ last'.op = AddOp => compute_balance(chain', a) = compute_balance(chain, a)
            /\ compute_balance(chain', a) # compute_balance(chain, a) => last'.op = MineOp]_vars

\* a transfer and a reward are mined while another transfer waits in the pool
C5_Witness ==
    /\ last.op = AddOp
    /\ last.error = ""
    /\ pending_transactions # <<>>
    /\ compute_balance(chain, "C3D4") = 100
    /\ compute_balance(chain, "A1B2") = 14 - 100
    /\ compute_balance(chain, "ZZZZ") = 0

(***************************************************************************)
(* Tampering (SpecTamper)                                                  *)
(***************************************************************************)
\* C3: after any field of any block of the chain (index, timestamp, a
\* transaction amount, previous_hash or nonce) is changed without
\* recomputing the block's stored hash, validate_chain() returns false.
C3_TamperDetected ==
    last.op = "tamper" => ~validate_chain(chain)

\* what validate_chain does detect: a changed field of a block after genesis
C3_TamperAfterGenesisDetected ==
    (last.op = "tamper" /\ last.index >= 2) => ~validate_chain(chain)

(***************************************************************************)
(* mine_pending_transactions (SpecReward)                                  *)
(***************************************************************************)
RewardMin == 1          \* 0.1
RewardMax == 14         \* 1.4

HashAtNonce(b, n) == compute_hash(b.index, b.timestamp, b.transactions, b.previous_hash, n)

\* C8: mine_block returns only when the stored hash starts with "0000" and
\* is the hash of the block's fields at the final nonce; in the search the
\* nonce never decreases and grows by exactly 1 per attempt, so the final
\* nonce is the least one from the starting nonce on that satisfies the
\* predicate, and a block that satisfies it already keeps its nonce.
C8_MineBlock ==
    /\ [](mpc = "done" =>
            /\ startswith0000(mblock.hash)
            /\ mblock.hash = HashAtNonce(mblock, mblock.nonce)
            /\ mblock.nonce >= mstart
            /\ \A n \in mstart..(mblock.nonce - 1) : ~startswith0000(HashAtNonce(mblock, n))
            /\ startswith0000(HashAtNonce(mblock, mstart)) => mblock.nonce = mstart
            /\ mblock = mine_block(Block(mblock.index, mblock.timestamp, mblock.transactions,
                                         mblock.previous_hash, mstart)))
    /\ [][mblock'.nonce # mblock.nonce => mblock'.nonce = mblock.nonce + 1]_vars

\* a search of two attempts has returned
C8_Witness ==
    /\ mpc = "done"
    /\ mblock.nonce = mstart + 2
    /\ mstart > 0
    /\ mblock.transactions # <<>>

(***************************************************************************)
(* Persistence (SpecDisk)                                                  *)
(***************************************************************************)
\* the disk holds the chain, the pool and the registry the ledger has in memory
DiskCurrent ==
    disk = snapshot(chain, pending_transactions, dev_users, disk.last_saved)

\* C9: whenever add_transaction or mine_pending_transactions returns
\* successfully, the persisted snapshot's chain, pending pool and address
\* registry are those in memory.
C9_WriteThrough ==
    (last.op \in {AddOp, MineOp} /\ last.error = "") => DiskCurrent

\* C10: a ledger constructed from a snapshot that save_to_file wrote has the
\* chain that was saved (the same blocks in the same order, each with the
\* same index, timestamp, transactions, previous_hash, nonce and stored
\* hash), the same pending pool and the same address registry.
C10_RoundTrip ==
    [][(last'.op = "init" /\ DiskCurrent) =>
        /\ chain' = chain
        /\ pending_transactions' = pending_transactions
        /\ dev_users' = dev_users]_vars

\* a ledger was loaded from a snapshot of two blocks and a pending transfer
C10_Witness ==
    /\ last.op = "init"
    /\ last.saved = "loaded"
    /\ DiskCurrent
    /\ Len(chain) = 2
    /\ chain[2].transactions # <<>>
    /\ pending_transactions # <<>>
    /\ \E i \in 1..2 : chain[i].nonce > 0

(***************************************************************************)
(* Admission (SpecAdmit)                                                   *)
(***************************************************************************)
\* tx carries a signature, an entry of the registry matches its sender by
\* address or by name and has a public key, and the signature does not
\* verify under that key (with the clock reading `now' for a missing timestamp)
SignatureRefuted(tx, now) ==
    /\ SigTruthy(tx.signature)
    /\ \E a \in DOMAIN dev_users :
           /\ a = tx.sender \/ dev_users[a] = tx.sender
           /\ dev_users[a] \in DOMAIN public_keys
           /\ ~verify_transaction_signature(
                   tx.sender, tx.receiver, tx.amount, tx.signature,
                   public_keys[dev_users[a]],
                   IF StrTruthy(tx.timestamp) THEN tx.timestamp ELSE now)

NotAdmitted ==
    /\ pending_transactions' = pending_transactions
    /\ chain' = chain
    /\ disk' = disk

\* C6: add_transaction of a transaction that carries a signature, whose
\* sender resolves by address or by name to an identity with a registered
\* public key, and whose signature does not verify against sender,
\* receiver, amount and timestamp, fails with the invalid-signature error
\* and leaves the pending pool, the chain and the snapshot as they were.
C6_InvalidSignatureRejected ==
    [][(last'.op = AddOp /\ SignatureRefuted(last'.tx, last'.now)) =>
        /\ last'.error = InvalidSignature
        /\ NotAdmitted]_vars

\* a transfer sent under the name cody, signed by cody's key over another
\* amount, was refused
C6_Witness ==
    /\ last.op = AddOp
    /\ last.error = InvalidSignature
    /\ last.tx.sender = "cody"
    /\ last.tx.signature = sign_transaction("cody", "C3D4", 101, "sk_cody", Times[1])
    /\ "cody" \in DOMAIN public_keys
    /\ pending_transactions # <<>>

ProofRefuted(tx) ==
    /\ ProofTruthy(tx.zk_proof)
    /\ ~verify_zk_proof(tx.zk_proof, tx.sender, tx.receiver, tx.amount)

\* C7 as stated: add_transaction of a transaction whose proof is present and
\* fails verify_zk_proof fails with the invalid-proof error and admits
\* nothing, whatever its signature.
C7_InvalidProofError ==
    [][(last'.op = AddOp /\ ProofRefuted(last'.tx)) =>
        /\ last'.error = InvalidProof
        /\ NotAdmitted]_vars

\* C7 amended: such a transaction is never admitted; add_transaction fails
\* with the invalid-proof error, also when the signature is valid, unless
\* the signature check has refused it first, and then with the
\* invalid-signature error.
C7_BadProofRejected ==
    [][(last'.op = AddOp /\ ProofRefuted(last'.tx)) =>
        /\ NotAdmitted
        /\ last'.error = IF SignatureRefuted(last'.tx, last'.now)
                         THEN InvalidSignature ELSE InvalidProof]_vars

\* a transfer with cody's valid signature and a proof whose response is 16
\* bytes long was refused
C7_Witness ==
    /\ last.op = AddOp
    /\ last.error = InvalidProof
    /\ last.tx.signature = sign_transaction("cody", "C3D4", 25, "sk_cody", Times[1])
    /\ "cody" \in {dev_users[a] : a \in DOMAIN dev_users}
    /\ last.tx.zk_proof.response = "hex16"
    /\ pending_transactions # <<>>

(***************************************************************************)
(* Loading (SpecLoad)                                                      *)
(***************************************************************************)
\* the ledger a start on an empty data directory gives
FreshLedger ==
    /\ Len(chain) = 1
    /\ \E now \in TimeSet : chain[1] = create_genesis_block(now)
    /\ pending_transactions = <<>>

\* C11: whenever load_from_file fails, at json.load or later, after some
\* blocks have been read, the ledger starts as on an empty data directory:
\* its chain is exactly one freshly mined genesis block and its pending pool
\* is empty.
C11_FailedLoadStartsFresh ==
    (last.op = "init" /\ last.saved # "loaded") => FreshLedger

\* what does hold: a file json.load cannot read gives the fresh ledger
C11_UnreadableStartsFresh ==
    [][(last'.op = "init" /\ ~json_load_ok(disk)) => FreshLedger']_vars

\* C16: in every reachable state the chain is not empty, its first block is
\* the genesis block (index 0, no transactions, previous_hash "0"), and
\* every block's index is its position in the chain, counted from 0.
C16_GenesisFirst ==
    /\ Len(chain) >= 1
    /\ chain[1].index = 0
    /\ chain[1].transactions = <<>>
    /\ chain[1].previous_hash = GenesisPrevious
    /\ \A i \in 1..Len(chain) : chain[i].index = i - 1

(***************************************************************************)
(* Failures of save_to_file (SpecDisk)                                     *)
(***************************************************************************)
SaveFailed == {"open_failed", "write_failed"}

\* the admitted transaction or the appended block is in memory
MutationKept ==
    /\ last'.op = AddOp =>
           /\ pending_transactions' = Append(pending_transactions, last'.tx)
           /\ chain' = chain
    /\ last'.op = MineOp =>
           /\ Len(chain') = Len(chain) + 1
           /\ SubSeq(chain', 1, Len(chain)) = chain
           /\ pending_transactions' = <<>>

\* C12: when the snapshot cannot be written during add_transaction or
\* mine_pending_transactions, the caller of the operation gets an error, and
\* the admitted transaction or the appended block stays in memory.
C12_SaveFailureReported ==
    [][(last'.op \in {AddOp, MineOp} /\ last'.saved \in SaveFailed) =>
        /\ last'.error # ""
        /\ MutationKept]_vars

\* what does hold: the mutation is kept when the save fails
C12_MutationKept ==
    [][(last'.op \in {AddOp, MineOp} /\ last'.saved \in SaveFailed) => MutationKept]_vars

\* C13: a save replaces the snapshot atomically: after every step the file
\* holds the complete snapshot it held before or the complete snapshot of
\* the new state, never an empty or partial one, also when the write stops
\* in the middle.
C13_AtomicSave ==
    [][\/ disk' = disk
       \/ disk' = snapshot(chain', pending_transactions', dev_users', disk'.last_saved)]_vars

(***************************************************************************)
(* Callers at the same time (SpecThreads)                                  *)
(***************************************************************************)
\* the blocks of the snapshot on disk
disk_blocks == {disk.chain[i] : i \in 1..Len(disk.chain)}

\* C14: every block of the chain in memory and of the snapshot on disk,
\* genesis included, has a stored hash that starts with "0000": a block is
\* appended, and so saved, only after mine_block returned it, also when a
\* search is interrupted or the process is stopped during one.
C14_OnlyMinedBlocks ==
    /\ \A i \in 1..Len(chain) : startswith0000(chain[i].hash)
    /\ \A d \in disk_blocks : startswith0000(d.hash)

\* a search was interrupted; a block mined by more than one attempt is in
\* the chain and on disk
C14_Witness ==
    /\ last.op = MineOp
    /\ last.error = "interrupted"
    /\ Len(chain) = 2
    /\ chain[2].nonce > 0
    /\ disk.kind = "snapshot"
    /\ Len(disk.chain) = 2

Appended == {"appended", "cleared", "returned"}

\* two calls have appended their block, and both had read the same tip
BothReadSameTip ==
    \E t1 \in Threads, t2 \in Threads :
        /\ t1 # t2
        /\ calls[t1].pc \in Appended
        /\ calls[t2].pc \in Appended
        /\ calls[t1].tip = calls[t2].tip

C15_AppendOnly ==
    [][/\ Len(chain') >= Len(chain)
       /\ \A i \in 1..Len(chain) : chain'[i] = chain[i]]_vars

\* the chain of three blocks was validated after a save that failed
C15_Witness ==
    /\ last.op = "validate_chain"
    /\ last.field = "True"
    /\ Len(chain) = 3
    /\ chain[2].transactions # <<>>
    /\ disk.kind = "partial"

\* tx carries a signature and its sender resolves to no name of the
\* registry, or to a name without a public key
SignatureUnverifiable(tx) ==
    /\ SigTruthy(tx.signature)
    /\ \/ \A a \in DOMAIN dev_users : a # tx.sender /\ dev_users[a] # tx.sender
       \/ \E a \in DOMAIN dev_users :
              /\ a = tx.sender \/ dev_users[a] = tx.sender
              /\ dev_users[a] \notin DOMAIN public_keys

Admitted ==
    /\ last'.error = ""
    /\ pending_transactions' = Append(pending_transactions, last'.tx)
    /\ disk' = snapshot(chain, pending_transactions', dev_users, disk'.last_saved)

\* C18 as stated: add_transaction of a transaction with a signature whose
\* sender resolves to no name, or to a name without a public key, admits
\* the transaction, whatever the signature.
C18_UnverifiableAdmitted ==
    [][(last'.op = AddOp /\ SignatureUnverifiable(last'.tx)) => Admitted]_vars

\* C18 amended: for such a transaction no signature is verified (no
\* invalid-signature error, no reading of the clock, and the outcome is the
\* same for every other signature in its place); the transaction is
\* admitted unless its proof is present and fails verify_zk_proof, and then
\* add_transaction fails with the invalid-proof error.
C18_UnverifiableNotChecked ==
    [][(last'.op = AddOp /\ SignatureUnverifiable(last'.tx)) =>
        /\ last'.now = None
        /\ IF ProofRefuted(last'.tx)
           THEN last'.error = InvalidProof /\ NotAdmitted
           ELSE Admitted
        /\ \A sig \in SignaturesFor(last'.tx.sender, last'.tx.receiver, last'.tx.amount,
                                     Times[1]) \cup {MalformedSig} :
               SigTruthy(sig) =>
                   add_transaction_error([last'.tx EXCEPT !.signature = sig],
                                         dev_users, public_keys, Times[2]) = last'.error]_vars

\* a transfer from an unknown sender with a string that is no signature was
\* admitted
C18_Witness ==
    /\ last.op = AddOp
    /\ last.error = ""
    /\ last.tx.sender = "ZZZZ"
    /\ last.tx.signature = MalformedSig
    /\ pending_transactions = <<last.tx>>
    /\ disk.pending_transactions = <<model_dump(last.tx)>>

(***************************************************************************)
(* The address registry (SpecAdmit)                                        *)
(***************************************************************************)
\* no address of the registry goes to another name
RegistryKept ==
    \A a \in DOMAIN dev_users : a \in DOMAIN dev_users' => dev_users'[a] = dev_users[a]

\* C17: an address assigned to a name is never assigned to another name:
\* the bootstrap leaves every name of _initialize_dev_users with an address
\* of its own, and no later operation gives an address to another name.
C17_AddressesNeverReassigned ==
    /\ [](/\ \A i \in 1..Len(DevNames) :
                \E a \in DOMAIN dev_users : dev_users[a] = DevNames[i]
          /\ Cardinality(DOMAIN dev_users) = Len(DevNames))
    /\ [][RegistryKept]_vars

\* what does hold: add_transaction leaves the registry as it is
C17_RegistryKept == [][RegistryKept]_vars

(***************************************************************************)
(* Signatures (SpecSign)                                                   *)
(***************************************************************************)
\* C20: for every key pair (sk, pk) and every message m,
\* verify_signature(m, sign_message(m, sk), pk) is true, and
\* verify_signature(m, sign_message(m, sk), pk2) is false for every other
\* public key pk2.
C20_SignVerify ==
    /\ \A m \in CryptoMessages, sk \in DOMAIN PublicOf, pk \in CryptoKeys :
           verify_signature(m, sign_message(m, sk), pk) <=> (pk = PublicOf[sk])
    /\ crypto.op = "verify_signature" =>
           \A sk \in DOMAIN PublicOf :
               crypto.signature = sign_message(crypto.message, sk) =>
                   (crypto.result <=> crypto.key = PublicOf[sk])

\* a signature made over hex text was verified under the other pair's key,
\* and refused
C20_Witness ==
    /\ crypto.op = "verify_signature"
    /\ crypto.message = "6869"
    /\ crypto.signature = sign_message("6869", "sk_cody")
    /\ crypto.key = PublicOf["sk_ezzy"]
    /\ ~crypto.result

\* C21: for every sender, receiver, amount, timestamp and key pair (sk, pk),
\* verify_transaction_signature of the signature sign_transaction made, with
\* the same sender, receiver, amount and timestamp, under pk, is true: both
\* build the same message, a whole amount written as "<int>.0", and hash.
C21_TransactionRoundTrip ==
    /\ \A sender \in {"A1B2", "cody"}, amount \in CryptoAmounts, sk \in DOMAIN PublicOf,
          timestamp \in TimeSet :
           verify_transaction_signature(
               sender, "C3D4", amount,
               sign_transaction(sender, "C3D4", amount, sk, timestamp),
               PublicOf[sk], timestamp)
    /\ (/\ crypto.op = "verify_transaction_signature"
        /\ crypto.tx.timestamp # None
        /\ crypto.signature = crypto.tx.signature
        /\ \E sk \in DOMAIN PublicOf :
               /\ crypto.key = PublicOf[sk]
               /\ crypto.tx.signature =
                      sign_transaction(crypto.tx.sender, crypto.tx.receiver, crypto.tx.amount,
                                       sk, crypto.tx.timestamp))
       => crypto.result

\* the signature of a transfer of 10.0 was verified under the paired key
C21_Witness ==
    /\ crypto.op = "verify_transaction_signature"
    /\ crypto.tx.amount = 100
    /\ crypto.tx.timestamp = Times[2]
    /\ crypto.tx.signature.msg = sha256hex("A1B2:C3D4:10.0:t2")
    /\ crypto.signature = crypto.tx.signature
    /\ crypto.key = PublicOf[crypto.tx.signature.key]
    /\ crypto.result

\* the signature or the key handed to the last verification is none: no hex,
\* hex of another length, or a signature that does not fit key and message
BadVerifyInput ==
    \/ crypto.signature \in BadSignatures
    \/ crypto.key \notin {PublicOf[sk] : sk \in DOMAIN PublicOf}
    \/ crypto.signature.key \notin DOMAIN PublicOf
    \/ PublicOf[crypto.signature.key] # crypto.key

\* C22: verify_signature and verify_transaction_signature return a boolean
\* for every input: malformed hex in the signature or the key, a key or a
\* signature of the wrong length and a signature that does not fit all give
\* false and no exception leaves them, so on a bad signature add_transaction
\* raises the invalid-signature error and no other.
C22_VerifyTotal ==
    /\ crypto.op \in {"verify_signature", "verify_transaction_signature"} =>
           /\ crypto.error = ""
           /\ crypto.result \in BOOLEAN
           /\ BadVerifyInput => crypto.result = FALSE
    /\ (/\ last.op = AddOp
        /\ SigTruthy(last.tx.signature)
        /\ ~ProofTruthy(last.tx.zk_proof)
        /\ last.error # "") => last.error = InvalidSignature

\* a signature that is no hex was verified under cody's key and found false,
\* and add_transaction refused a transfer of cody that carried it
C22_Witness ==
    /\ crypto.op = "verify_transaction_signature"
    /\ crypto.signature = MalformedSig
    /\ crypto.key = "pk_cody"
    /\ crypto.result = FALSE
    /\ crypto.error = ""
    /\ last.op = AddOp
    /\ last.tx.signature = MalformedSig
    /\ last.error = InvalidSignature

\* C23: verify_zk_proof(proof, sender, receiver, amount) is true exactly when
\* commitment, challenge, response and message_hash are all non-empty,
\* message_hash is SHA256("sender:receiver:amount"), challenge is
\* SHA256("commitment:message_hash") and response decodes to exactly 32
\* bytes; so every proof generate_zk_proof returns verifies for the same
\* sender, receiver and amount, whichever private key made the response.
C23_ProofVerifiesExactly ==
    /\ crypto.op = "verify_zk_proof" =>
           LET proof == crypto.tx.zk_proof
               amount == FloatStr(crypto.tx.amount)
           IN  crypto.result =
                   (/\ proof.commitment # ""
                    /\ proof.challenge # ""
                    /\ proof.response # ""
                    /\ proof.message_hash # ""
                    /\ proof.message_hash =
                           sha256hex(crypto.tx.sender \o ":" \o crypto.tx.receiver
                                                     \o ":" \o amount)
                    /\ proof.challenge =
                           sha256hex(proof.commitment \o ":" \o proof.message_hash)
                    /\ ResponseBytes(proof.response) = 32)
    /\ \A sender \in {"A1B2", "cody"}, amount \in CryptoAmounts, sk \in DOMAIN PublicOf,
          nonce \in Nonces :
           verify_zk_proof(generate_zk_proof(sender, "C3D4", amount, sk, nonce),
                           sender, "C3D4", amount)

\* a proof made with ezzy's key for a transfer of 2.5 by cody was verified
\* for that transfer
C23_Witness ==
    /\ crypto.op = "verify_zk_proof"
    /\ crypto.tx.zk_proof = generate_zk_proof("cody", "C3D4", 25, "sk_ezzy", "n2")
    /\ crypto.tx.sender = "cody"
    /\ crypto.tx.amount = 25
    /\ crypto.result

ReadOnlyOps == {"validate_chain", "compute_balance", "get_dev_users", "save_to_file"}

\* C24: validate_chain, compute_balance, get_dev_users and save_to_file only
\* read the ledger: each leaves the chain, with every block's stored hash and
\* nonce, the pending pool and the address registry as they were, also when
\* validate_chain finds a violation, which it does not repair.
C24_ReadOnly ==
    [][last'.op \in ReadOnlyOps =>
        /\ chain' = chain
        /\ pending_transactions' = pending_transactions
        /\ dev_users' = dev_users]_vars

\* validate_chain found the stored hash of the block after the genesis block
\* wrong, and it is still wrong
C24_Witness ==
    /\ last.op = "validate_chain"
    /\ last.field = "False"
    /\ tampered
    /\ Len(chain) = 2
    /\ chain[2].hash # BlockHash(chain[2])
    /\ pending_transactions # <<>>

(***************************************************************************)
(* AuthManager: logins, challenges, sessions                               *)
(***************************************************************************)
\* challenge_token was given out by generate_challenge for u and is at most
\* five minutes old, and signature verifies over its message under u's key
LoginGood(challenge_token, signature, u) ==
    /\ challenge_token \in 1..Len(issued)
    /\ issued[challenge_token].kind = "challenge"
    /\ issued[challenge_token].username = u
    /\ challenge_token \in DOMAIN challenges
    /\ clock.utcnow - issued[challenge_token].at <= 5
    /\ u \in DOMAIN auth_public_keys
    /\ verify_signature(challenge_message(u, challenge_token), signature,
                        auth_public_keys[u])

\* C25: a session for u is created only by a verify_login whose challenge
\* token generate_challenge gave out for u, which is at most 5 minutes old
\* and whose signature verifies over that challenge's message under u's
\* registered public key; every other verify_login returns None and creates
\* no session.
C25_SessionOnlyByLogin ==
    [][/\ \A s \in (DOMAIN sessions') \ (DOMAIN sessions) :
              /\ VerifyLogin(reply'.token, reply'.signature)
              /\ reply'.value = s
              /\ LoginGood(reply'.token, reply'.signature, sessions'[s].username)
       /\ (/\ VerifyLogin(reply'.token, reply'.signature)
           /\ ~\E u \in AuthUsers : LoginGood(reply'.token, reply'.signature, u))
          => /\ reply'.value = NoSession
             /\ sessions' = sessions]_vars

\* ezzy logged in with a challenge as it turned five minutes old
C25_Witness ==
    /\ reply.op = "verify_login"
    /\ reply.value \in DOMAIN sessions
    /\ sessions[reply.value].username = "ezzy"
    /\ issued[reply.token] = Issued("challenge", "ezzy", 0)
    /\ issued[reply.value].at = 5

\* C26: a challenge is used once: after a verify_login that succeeds with a
\* token, or finds it expired, the token is gone, and every later
\* verify_login with it returns None, whatever the signature.
C26_ChallengeSingleUse ==
    [][/\ VerifyLogin(reply'.token, reply'.signature) =>
              LET t == reply'.token
              IN  /\ (\/ reply'.value # NoSession
                       \/ /\ t \in DOMAIN challenges
                          /\ clock.utcnow - challenges[t].timestamp > 5)
                     => t \notin DOMAIN challenges'
                  /\ t \notin DOMAIN challenges =>
                         /\ reply'.value = NoSession
                         /\ sessions' = sessions
       /\ \A t \in 1..Len(issued) :
              t \notin DOMAIN challenges => t \notin DOMAIN challenges']_vars

\* cody logged in with challenge 1, and the same token with the same, valid
\* signature was then refused
C26_Witness ==
    /\ reply.op = "verify_login"
    /\ reply.token = 1
    /\ reply.signature = sign_message(challenge_message("cody", 1), "sk_cody")
    /\ reply.value = NoSession
    /\ Len(issued) = 2
    /\ issued[1].kind = "challenge" /\ issued[1].username = "cody"
    /\ issued[2].kind = "session"
    /\ 2 \in DOMAIN sessions
    /\ clock.utcnow = 0

\* the token was given out by a successful verify_login, has not been logged
\* out, and the clock has not passed 24 hours after the login
SessionLive(session_token) ==
    /\ session_token \in 1..Len(issued)
    /\ issued[session_token].kind = "session"
    /\ ~issued[session_token].out
    /\ clock.utcnow <= issued[session_token].at + 24 * 60

\* C27: verify_session(token) returns the session's username exactly when
\* the token was given out by a successful verify_login, has not been logged
\* out and has not passed its expiry, 24 hours after the login; once logout
\* has returned True for it or it has been found expired, verify_session
\* returns None for it ever after; logout of an unknown token returns False
\* and changes nothing.
C27_SessionLifetime ==
    [][/\ LET t == reply'.token
          IN  /\ VerifySession(t) =>
                     /\ reply'.value = IF SessionLive(t) THEN issued[t].username ELSE None
                     /\ (t \in DOMAIN sessions /\ ~SessionLive(t)) =>
                            t \notin DOMAIN sessions'
              /\ (Logout(t) /\ reply'.value = "True") => t \notin DOMAIN sessions'
              /\ (Logout(t) /\ t \notin DOMAIN sessions) =>
                     /\ reply'.value = "False"
                     /\ UNCHANGED <<sessions, challenges, issued>>
       /\ \A t \in 1..Len(issued) :
              t \notin DOMAIN sessions => t \notin DOMAIN sessions']_vars

\* cody's session was verified as it turned 24 hours old
C27_Witness ==
    /\ reply.op = "verify_session"
    /\ reply.value = "cody"
    /\ reply.token \in DOMAIN sessions
    /\ clock.utcnow = sessions[reply.token].expires_at

(***************************************************************************)
(* The endpoints                                                           *)
(***************************************************************************)
\* the header carries the token of a session that is live, and address is
\* the one the registry holds for the session's user
OwnAddress(authorization, address) ==
    /\ authorization.scheme # "none"
    /\ SessionLive(authorization.token)
    /\ address \in DOMAIN dev_users
    /\ dev_users[address] = issued[authorization.token].username

LedgerUntouched ==
    /\ chain' = chain
    /\ pending_transactions' = pending_transactions
    /\ last' = last

\* C28: through the endpoints a transaction reaches add_transaction only
\* when the request carries the token of a valid, unexpired session and its
\* sender is the address registered for the session's user, and a block is
\* mined only for a valid session, the reward going to the logged-in user's
\* own address; every other request is answered 401, 403 or 404 and leaves
\* the chain and the pending pool as they were.
C28_ServiceGuards ==
    [][/\ \A authorization \in {NoAuthorization, Bearer(reply'.token)} :
              (/\ reply'.op = "create_transaction"
               /\ CreateTransaction(AdmitTxs, authorization,
                                    ServiceTx(reply'.address, reply'.signature),
                                    Times[1], "ok")) =>
                  IF OwnAddress(authorization, reply'.address)
                  THEN /\ reply'.status \in {200, 400}
                       /\ last'.op = AddOp
                       /\ last'.tx.sender = reply'.address
                  ELSE /\ reply'.status \in {401, 403, 404}
                       /\ LedgerUntouched
       /\ \A authorization \in {NoAuthorization, Bearer(reply'.token)} :
              (/\ reply'.op = "mine_block"
               /\ MineBlock(RewardBlocks, authorization, reply'.address, 14, Times[1],
                            "ok")) =>
                  LET miner_address == reply'.address
                  IN
                  IF /\ authorization.scheme # "none"
                     /\ SessionLive(authorization.token)
                     /\ \E a \in DOMAIN dev_users :
                            /\ dev_users[a] = issued[authorization.token].username
                            /\ MinerGiven(miner_address) => miner_address = a
                  THEN /\ reply'.status = 200
                       /\ Len(chain') = Len(chain) + 1
                       /\ LET txs == chain'[Len(chain')].transactions
                          IN  /\ txs # <<>>
                              /\ txs[Len(txs)].sender = SYSTEM
                              /\ OwnAddress(authorization, txs[Len(txs)].receiver)
                  ELSE /\ reply'.status \in {401, 403, 404}
                       /\ LedgerUntouched
       /\ (chain' # chain \/ pending_transactions' # pending_transactions) =>
              /\ reply'.op \in {"create_transaction", "mine_block"}
              /\ reply'.status = 200
              /\ SessionLive(reply'.token)]_vars

\* ezzy, logged in, sent a transfer from her address and mined it with the
\* reward to her address, and a request for cody's address was refused
C28_Witness ==
    /\ reply.op = "mine_block"
    /\ reply.status = 403
    /\ reply.value = None
    /\ reply.token \in DOMAIN sessions
    /\ sessions[reply.token].username = "ezzy"
    /\ Len(chain) = 2
    /\ Len(chain[2].transactions) = 2
    /\ chain[2].transactions[1].sender = "C3D4"
    /\ chain[2].transactions[2].receiver = "C3D4"
    /\ dev_users["C3D4"] = "ezzy"

(***************************************************************************)
(* Admitted transactions                                                   *)
(***************************************************************************)
\* the transactions of the blocks of c in order, the rewards left out
RECURSIVE ChainTransfers(_)
ChainTransfers(c) ==
    IF c = <<>> THEN <<>>
    ELSE SelectSeq(Head(c).transactions, LAMBDA tx : tx.sender # SYSTEM)
         \o ChainTransfers(Tail(c))

\* every transaction the ledger holds, in the blocks and then in the pool
Held == ChainTransfers(chain) \o pending_transactions

\* the step is an add_transaction that admitted last'.tx
Admission ==
    /\ last'.op = AddOp
    /\ last'.error = ""
    /\ \E outcome \in SaveOutcomes : AddTransaction(MaxTxs, last'.tx, Times[1], outcome)

\* C29: when operations run one at a time no admitted transaction is lost
\* or duplicated: every admission is, in every later state, held exactly
\* once, in the pool or in one block and not in both, and the order of
\* admission is kept within the pool and within each block. Every step
\* leaves the transactions held, read through the blocks and then the pool,
\* as they were, an admission adding its transaction at the end.
C29_NoLossNoDuplication ==
    [][/\ Held' = IF Admission THEN Append(Held, last'.tx) ELSE Held
       /\ \A i \in 1..Len(chain) : chain'[i].transactions = chain[i].transactions]_vars

\* three admissions of two kinds, held in two mined blocks and the pool
C29_Witness ==
    /\ Len(chain) = 3
    /\ Len(Held) = 3
    /\ Held[1] # Held[2]
    /\ Len(pending_transactions) = 1
    /\ ChainTransfers(<<chain[2]>>) = <<Held[1]>>
    /\ ChainTransfers(<<chain[3]>>) = <<Held[2]>>
    /\ pending_transactions = <<Held[3]>>

(***************************************************************************)
(* An admission during a mining call (SpecThreads)                         *)
(***************************************************************************)
InSeq(seq, v) == \E i \in 1..Len(seq) : seq[i] = v
InBlocks(c, v) == \E i \in 1..Len(c) : InSeq(c[i].transactions, v)
\* a call that has not returned holds v in its copy of the pool
InCopies(cs, v) ==
    \E t \in Threads : cs[t].pc \in Running /\ InSeq(cs[t].transactions_to_mine, v)
\* the file holds v, in its pool or in a block
InFile(d, v) == InSeq(d.pending_transactions, model_dump(v)) \/ InBlocks(d.chain, model_dump(v))

\* C30: a transaction add_transaction appends to the pool after a concurrent
\* mine_pending_transactions took its copy and before that call resets the
\* pool is, once the pool is reset, neither in a block nor in the pool, and
\* the call's save then writes a snapshot without it over one that held it.
\* The transaction is one the pool holds at the reset that is in no block
\* and in no copy a running call took.
C30_AdmissionLostUnderMining ==
    [][\A t \in Threads :
         /\ (calls[t].pc = "appended" /\ calls'[t].pc = "cleared") =>
                \A i \in 1..Len(pending_transactions) :
                    LET tx == pending_transactions[i]
                    IN  (~InBlocks(chain, tx) /\ ~InCopies(calls, tx)) =>
                            /\ ~InSeq(pending_transactions', tx)
                            /\ ~InBlocks(chain', tx)
                            /\ ~InCopies(calls', tx)
         /\ (calls[t].pc = "cleared" /\ calls'[t].pc = "returned") =>
                \A i \in 1..Len(disk.pending_transactions) :
                    LET tx == load_transaction(disk.pending_transactions[i])
                    IN  (~InSeq(pending_transactions, tx) /\ ~InBlocks(chain, tx)) =>
                            ~InFile(disk', tx)]_vars

\* a call mined a block of its reward alone and reset the pool; the transfer
\* admitted meanwhile is in the file add_transaction saved and nowhere in the
\* ledger
C30_Witness ==
    /\ \E t \in Threads : calls[t].pc = "cleared"
    /\ last.op = AddOp /\ last.error = "" /\ last.tx = Transfer
    /\ InSeq(disk.pending_transactions, model_dump(Transfer))
    /\ pending_transactions = <<>>
    /\ Len(chain) = 2
    /\ ~InBlocks(chain, Transfer)
    /\ ~InCopies(calls, Transfer)

(***************************************************************************)
(* Transactions without signature and proof (SpecOpen)                     *)
(***************************************************************************)
Unsigned(tx) == ~SigTruthy(tx.signature) /\ ~ProofTruthy(tx.zk_proof)

\* C31: add_transaction never rejects a transaction that carries no
\* signature (absent or the empty string) and no proof (absent or the empty
\* object): it raises nothing and the transaction is appended to the pending
\* pool, whatever its sender, its amount (zero and negative included) and the
\* sender's balance, and when the sender has a registered public key.
C31_UnsignedAdmitted ==
    [][/\ \A tx \in OpenTxs : add_transaction_error(tx, dev_users, public_keys, Times[1]) = ""
       /\ (last'.op = AddOp /\ Unsigned(last'.tx)) =>
              /\ last'.error = ""
              /\ pending_transactions' = Append(pending_transactions, last'.tx)
              /\ chain' = chain]_vars

\* a key holder with a balance of zero sent a negative amount, the signature
\* the empty string and the proof the empty object, and it is in the pool
C31_Witness ==
    /\ last.op = AddOp
    /\ last.error = ""
    /\ last.tx.sender = "A1B2"
    /\ sender_username(dev_users, "A1B2") \in DOMAIN public_keys
    /\ last.tx.amount < 0
    /\ last.tx.signature = EmptySig
    /\ last.tx.zk_proof = EmptyProof
    /\ compute_balance(chain, "A1B2") = 0
    /\ pending_transactions = <<last.tx>>

(***************************************************************************)
(* What a transaction signature is bound to (SpecBind)                     *)
(***************************************************************************)
\* C32: a transaction signature binds the signed fields: a signature that
\* sign_transaction made for (sender, receiver, amount, timestamp) is
\* accepted by verify_transaction_signature under the paired public key for
\* other fields only if the two tuples are equal, for all strings sender and
\* receiver, those with ':' included, and all amounts.
C32_SignatureBinds ==
    (crypto.op = "verify_transaction_signature" /\ crypto.result) =>
        \A sender \in BindSenders, receiver \in BindReceivers, amount \in BindAmounts,
           timestamp \in BindTimestamps, sk \in DOMAIN PublicOf :
            (/\ crypto.key = PublicOf[sk]
             /\ crypto.signature = sign_transaction(sender, receiver, amount, sk, timestamp))
            => /\ crypto.tx.sender = sender
               /\ crypto.tx.receiver = receiver
               /\ crypto.tx.amount = amount
               /\ crypto.tx.timestamp = timestamp

(***************************************************************************)
(* Conservation of value (SpecValue)                                       *)
(***************************************************************************)
\* the transactions of the blocks of c in order
RECURSIVE ChainTransactions(_)
ChainTransactions(c) ==
    IF c = <<>> THEN <<>> ELSE Head(c).transactions \o ChainTransactions(Tail(c))

\* the addresses that appear in the chain
Addresses(c) ==
    {ChainTransactions(c)[i].sender : i \in 1..Len(ChainTransactions(c))}
    \cup {ChainTransactions(c)[i].receiver : i \in 1..Len(ChainTransactions(c))}

\* the sum of compute_balance over the addresses of S
RECURSIVE SumBalances(_, _)
SumBalances(c, S) ==
    IF S = {} THEN 0
    ELSE LET a == CHOOSE a \in S : TRUE
         IN  compute_balance(c, a) + SumBalances(c, S \ {a})

\* the sum of the amounts of the transactions of txs
RECURSIVE AmountsOf(_)
AmountsOf(txs) == IF txs = <<>> THEN 0 ELSE Head(txs).amount + AmountsOf(Tail(txs))

\* the sum of the amounts of the transactions of txs that Test holds of
Total(txs, Test(_)) == AmountsOf(SelectSeq(txs, Test))

\* a reward as mine_pending_transactions builds it
IsReward(tx) == tx.sender = SYSTEM /\ tx.timestamp = None
FromSystem(tx) == tx.sender = SYSTEM /\ tx.receiver # SYSTEM
ToSystem(tx) == tx.receiver = SYSTEM /\ tx.sender # SYSTEM

\* C33 as stated: value is conserved: in every reachable state the sum of
\* compute_balance over all addresses that appear in the chain, "SYSTEM"
\* included, is 0, so the sum of the balances of all other addresses equals
\* the total of the mining rewards issued so far.
C33_ValueConserved ==
    /\ SumBalances(chain, Addresses(chain)) = 0
    /\ SumBalances(chain, Addresses(chain) \ {SYSTEM})
           = Total(ChainTransactions(chain), IsReward)

\* C33, amended: with amounts added exactly (they are counted in tenths),
\* the sum of compute_balance over all addresses that appear in the chain,
\* "SYSTEM" included, is 0, so the sum of the balances of all
\* other addresses is minus the balance of "SYSTEM": the total that mined
\* transactions, the rewards among them, move from "SYSTEM" to other
\* addresses, minus the total that mined transactions move from other
\* addresses to "SYSTEM".
C33_ValueConservedBySystem ==
    /\ SumBalances(chain, Addresses(chain)) = 0
    /\ SumBalances(chain, Addresses(chain) \ {SYSTEM}) = 0 - compute_balance(chain, SYSTEM)
    /\ SumBalances(chain, Addresses(chain) \ {SYSTEM})
           = Total(ChainTransactions(chain), FromSystem)
             - Total(ChainTransactions(chain), ToSystem)

\* a reward of 1.4 was mined for A1B2 with a transfer of 2.5 from A1B2 to
\* "SYSTEM": the other addresses hold -1.1 together, not the 1.4 issued
C33_Witness ==
    /\ Len(chain) = 2
    /\ chain[2].transactions = <<Transaction("A1B2", SYSTEM, 25, NoSig, NoProof, None),
                                 reward_tx("A1B2", 14)>>
    /\ compute_balance(chain, "A1B2") = -11
    /\ compute_balance(chain, SYSTEM) = 11
    /\ Total(ChainTransactions(chain), IsReward) = 14

====
